---- MODULE Spec2Model ----
(***************************************************************************)
(* A model of the futures contract-date and contract-identity library of   *)
(* Ibiza: SingleContractDate, ContractDate, FuturesInstrument,             *)
(* FuturesContract, ListOfFutureContracts and DictFutureContractPrices.    *)
(*                                                                         *)
(* Python values are records.  An object carries its class in the field    *)
(* "type"; None is the record None; a raised exception is the record       *)
(* Raise(exc); an integer that a property returns is wrapped as IntObj(n)  *)
(* so that "an integer, None, or an exception" is one kind of value.       *)
(* Python strings are TLA+ strings, read with Len, SubSeq and \o.          *)
(***************************************************************************)
EXTENDS Integers, Sequences, FiniteSets, TLC

VARIABLES
    scd_args,      \* arguments of SingleContractDate(...): date_str, expiry_date, approx_expiry_offset
    scd,           \* the SingleContractDate instance (or what its construction raised)
    cd_args,       \* arguments of ContractDate(...) / which constructor is called
    cd,            \* the ContractDate instance (or what its construction raised)
    fc,            \* the FuturesContract built by FuturesContract.create_empty()
    cmp_args,      \* the two FuturesContracts a, b handed to the comparison operators
    cmp,           \* the results of a < b, a == b, b < a, a <= b
    contracts,     \* the ListOfFutureContracts (the list's items, in order)
    list_op,       \* the last operation on the list and whether it raised
    prices,        \* the DictFutureContractPrices: items (key, table) in insertion order
    cache,         \* its attribute _all_contract_date_str_sorted (Absent when not set)
    returned,      \* what the last call on the dictionary returned
    dict_op,       \* the last call on the dictionary
    key_args,      \* the call on FuturesContract keys: its name and its arguments
    key_res,       \* what that call built and returned
    roll_dates,    \* the SingleContractDate instances of a chain of rolls, the first given
    roll_calls,    \* the next/previous_contract_month calls made, each on the last instance
    set_args,      \* the ListOfFutureContracts self and the other_list of a set-style call
    set_res,       \* the operation called on self and what it returned
    call_args,     \* a call of a date function or an accessor: its name, receiver and arguments
    call_res       \* what that call returned or raised

varsSingle == <<scd_args, scd>>
varsContractDate == <<cd_args, cd, fc>>
varsOrder == <<cmp_args, cmp>>
varsList == <<contracts, list_op>>
varsPrices == <<prices, cache, returned, dict_op>>
varsKey == <<key_args, key_res>>
varsRoll == <<roll_dates, roll_calls>>
varsSetOps == <<set_args, set_res>>
varsCall == <<call_args, call_res>>
vars == <<varsSingle, varsContractDate, varsOrder, varsList, varsPrices,
          varsKey, varsRoll, varsSetOps, varsCall>>

-----------------------------------------------------------------------------
(* Python values *)

None == [type |-> "NoneType"]

Raise(exc) == [ok |-> FALSE, exc |-> exc]

IsRaise(v) == "exc" \in DOMAIN v

IntObj(n) == [ok |-> TRUE, val |-> n]

IsInt(v) == "val" \in DOMAIN v

BoolObj(b) == [ok |-> TRUE, truth |-> b]

StrObj(s) == [ok |-> TRUE, str |-> s]

PyStr(s) == [type |-> "str", value |-> s]

PyList(items) == [type |-> "list", value |-> items]

\* Nothing has been constructed or called yet.
NotYet == [type |-> "NotYet"]

\* The value of a key that a dict does not hold.
Missing == [type |-> "Missing"]

-----------------------------------------------------------------------------
(* Python strings *)

Digits == {"0", "1", "2", "3", "4", "5", "6", "7", "8", "9"}

\* ord(c) for the characters the model's strings are written in.
Ord ==
    [c \in Digits \cup {"-", "/", "A", "C", "E", "L", "S", "X", "c", "e", "l", "s"} |->
        CASE c = "-" -> 45 [] c = "/" -> 47
          [] c = "0" -> 48 [] c = "1" -> 49 [] c = "2" -> 50 [] c = "3" -> 51
          [] c = "4" -> 52 [] c = "5" -> 53 [] c = "6" -> 54 [] c = "7" -> 55
          [] c = "8" -> 56 [] c = "9" -> 57
          [] c = "A" -> 65 [] c = "C" -> 67 [] c = "E" -> 69 [] c = "L" -> 76
          [] c = "S" -> 83 [] c = "X" -> 88
          [] c = "c" -> 99 [] c = "e" -> 101 [] c = "l" -> 108 [] c = "s" -> 115]

CharAt(s, i) == SubSeq(s, i, i)

\* s.endswith(suffix)
EndsWith(s, suffix) ==
    /\ Len(s) >= Len(suffix)
    /\ SubSeq(s, Len(s) - Len(suffix) + 1, Len(s)) = suffix

\* s < t on Python strings: lexicographic by code point, a proper prefix first.
RECURSIVE StrLessFrom(_, _, _)
StrLessFrom(s, t, i) ==
    IF i > Len(t) THEN FALSE
    ELSE IF i > Len(s) THEN TRUE
    ELSE IF CharAt(s, i) = CharAt(t, i) THEN StrLessFrom(s, t, i + 1)
    ELSE Ord[CharAt(s, i)] < Ord[CharAt(t, i)]

StrLess(s, t) == StrLessFrom(s, t, 1)

\* c.upper() for one character
UpperChar(c) ==
    CASE c = "c" -> "C" [] c = "e" -> "E" [] c = "l" -> "L" [] c = "s" -> "S"
      [] OTHER -> c

\* s.upper()
RECURSIVE Upper(_)
Upper(s) ==
    IF Len(s) = 0 THEN ""
    ELSE UpperChar(CharAt(s, 1)) \o Upper(SubSeq(s, 2, Len(s)))

IsDigits(s) == Len(s) > 0 /\ \A i \in 1..Len(s) : CharAt(s, i) \in Digits

DigitVal(c) == Ord[c] - Ord["0"]

RECURSIVE DecimalValue(_)
DecimalValue(s) ==
    IF Len(s) = 0 THEN 0
    ELSE 10 * DecimalValue(SubSeq(s, 1, Len(s) - 1)) + DigitVal(CharAt(s, Len(s)))

\* int(s), for strings of digits, letters and "-": the value of the digits,
\* negated after a leading "-", or ValueError for any other string.
PyInt(s) ==
    IF IsDigits(s) THEN IntObj(DecimalValue(s))
    ELSE IF Len(s) > 1 /\ CharAt(s, 1) = "-" /\ IsDigits(SubSeq(s, 2, Len(s)))
    THEN IntObj(0 - DecimalValue(SubSeq(s, 2, Len(s))))
    ELSE Raise("ValueError")

\* str(d) for a digit d
DigitChar(d) ==
    CASE d = 0 -> "0" [] d = 1 -> "1" [] d = 2 -> "2" [] d = 3 -> "3" [] d = 4 -> "4"
      [] d = 5 -> "5" [] d = 6 -> "6" [] d = 7 -> "7" [] d = 8 -> "8" [] d = 9 -> "9"

\* str(n), n >= 0
RECURSIVE Decimal(_)
Decimal(n) == IF n < 10 THEN DigitChar(n) ELSE Decimal(n \div 10) \o DigitChar(n % 10)

\* s.rjust(width, "0")
RECURSIVE ZeroFill(_, _)
ZeroFill(s, width) == IF Len(s) >= width THEN s ELSE ZeroFill("0" \o s, width)

\* f"{n:0{width}d}": at least width characters, the sign counted among them
ZeroPad(n, width) ==
    IF n >= 0 THEN ZeroFill(Decimal(n), width)
    ELSE "-" \o ZeroFill(Decimal(0 - n), width - 1)

\* c in s, for a character c
Contains(s, c) == \E i \in 1..Len(s) : CharAt(s, i) = c

\* s.find(c) + 1: the position of the first c in s, 0 when there is none
Find(s, c) ==
    IF Contains(s, c)
    THEN CHOOSE i \in 1..Len(s) :
            CharAt(s, i) = c /\ \A j \in 1..(i - 1) : CharAt(s, j) # c
    ELSE 0

\* s.split(c): the pieces of s between the occurrences of the character c
RECURSIVE Split(_, _)
Split(s, c) ==
    IF ~ Contains(s, c) THEN <<s>>
    ELSE <<SubSeq(s, 1, Find(s, c) - 1)>> \o Split(SubSeq(s, Find(s, c) + 1, Len(s)), c)

\* separator.join(strs)
RECURSIVE Join(_, _)
Join(strs, separator) ==
    IF Len(strs) = 0 THEN ""
    ELSE IF Len(strs) = 1 THEN strs[1]
    ELSE strs[1] \o separator \o Join(Tail(strs), separator)

\* hash(s) of a string: equal strings, and only they, are given equal hashes.
StrHash(s) == [hash_of |-> s]

-----------------------------------------------------------------------------
(* Calendar *)

\* calendar.isleap
IsLeap(y) == (y % 4 = 0) /\ ((y % 100 # 0) \/ (y % 400 = 0))

\* calendar.monthrange(y, m)[1], for m in 1..12
DaysInMonth(y, m) ==
    IF m = 2 THEN (IF IsLeap(y) THEN 29 ELSE 28)
    ELSE IF m \in {4, 6, 9, 11} THEN 30
    ELSE 31

\* datetime.date(y, m, d) exists
IsCalendarDate(y, m, d) ==
    /\ y \in 1..9999
    /\ m \in 1..12
    /\ d \in 1..DaysInMonth(y, m)

\* datetime.date(y, m, d)
Date(y, m, d) == [type |-> "date", year |-> y, month |-> m, day |-> d]

\* The days before 1 January of year y, counted from 1 January of year 1.
days_before_year(y) ==
    (y - 1) * 365 + ((y - 1) \div 4) - ((y - 1) \div 100) + ((y - 1) \div 400)

\* The days of year y before the first day of month m.
RECURSIVE days_before_month(_, _)
days_before_month(y, m) ==
    IF m <= 1 THEN 0 ELSE days_before_month(y, m - 1) + DaysInMonth(y, m - 1)

\* date.toordinal(): 1 January of year 1 is day 1
toordinal(d) == days_before_year(d.year) + days_before_month(d.year, d.month) + d.day

\* date.fromordinal(n)
fromordinal(n) ==
    LET y == CHOOSE y \in (n \div 366)..((n \div 365) + 1) :
                 days_before_year(y) < n /\ n <= days_before_year(y + 1)
        rest == n - days_before_year(y)
        m == CHOOSE m \in 1..12 :
                 days_before_month(y, m) < rest
                 /\ rest <= days_before_month(y, m) + DaysInMonth(y, m)
    IN  Date(y, m, rest - days_before_month(y, m))

\* date.weekday(): Monday is 0, Sunday is 6
weekday(d) == (toordinal(d) + 6) % 7

\* A slip in is_business_day: Saturday counted as a business day.
is_business_day_with_saturday(date_obj) == weekday(date_obj) < 6

\* is_business_day(date_obj)
is_business_day(date_obj) == weekday(date_obj) < 5

\* The while loop of add_business_days: step one day in the direction, count
\* the day when it is a business day.
RECURSIVE add_business_days_loop(_, _, _)
add_business_days_loop(current, remaining_days, direction) ==
    IF remaining_days > 0
    THEN LET next == fromordinal(toordinal(current) + direction)
         IN  add_business_days_loop(next,
                                    IF is_business_day(next) THEN remaining_days - 1
                                    ELSE remaining_days,
                                    direction)
    ELSE current

\* add_business_days(date_obj, days)
add_business_days(date_obj, days) ==
    add_business_days_loop(date_obj,
                           IF days < 0 THEN 0 - days ELSE days,
                           IF days >= 0 THEN 1 ELSE -1)

-----------------------------------------------------------------------------
(* ExpiryDate *)

ExpiryDate(y, m, d) == [type |-> "ExpiryDate", year |-> y, month |-> m, day |-> d]

\* The characters i..j of s, and the empty string when s ends before j.
Chars(s, i, j) == IF j <= Len(s) THEN SubSeq(s, i, j) ELSE ""

\* The regular expression of %m, 1[0-2]|0[1-9]|[1-9], at position i of s:
\* the lengths it can match, in the order the alternatives are tried.
month_matches(s, i) ==
    (IF \/ Chars(s, i, i) = "1" /\ Chars(s, i + 1, i + 1) \in {"0", "1", "2"}
        \/ Chars(s, i, i) = "0" /\ Chars(s, i + 1, i + 1) \in Digits \ {"0"}
     THEN <<2>> ELSE <<>>)
    \o (IF Chars(s, i, i) \in Digits \ {"0"} THEN <<1>> ELSE <<>>)

\* The regular expression of %d, 3[0-1]|[1-2]\d|0[1-9]|[1-9]| [1-9], at
\* position i of s: the length of the first alternative that matches, 0
\* when none does.
day_match(s, i) ==
    IF \/ Chars(s, i, i) = "3" /\ Chars(s, i + 1, i + 1) \in {"0", "1"}
       \/ Chars(s, i, i) \in {"1", "2"} /\ Chars(s, i + 1, i + 1) \in Digits
       \/ Chars(s, i, i) = "0" /\ Chars(s, i + 1, i + 1) \in Digits \ {"0"}
    THEN 2
    ELSE IF Chars(s, i, i) \in Digits \ {"0"} THEN 1
    ELSE IF Chars(s, i, i) = " " /\ Chars(s, i + 1, i + 1) \in Digits \ {"0"} THEN 2
    ELSE 0

\* int() of a field that %d has matched: a leading blank is skipped
day_value(field) ==
    IF Chars(field, 1, 1) = " " THEN DecimalValue(SubSeq(field, 2, Len(field)))
    ELSE DecimalValue(field)

\* datetime.datetime.strptime(date_as_str, "%Y%m%d"): the format's regular
\* expression \d\d\d\d, then %m, then %d is matched at the start of the
\* string, the first alternatives that let all three match are taken,
\* ValueError when there are none, when text remains after the match, or
\* when the numbers are no date of the calendar.
strptime_Ymd(date_as_str) ==
    LET months == month_matches(date_as_str, 5)
        fits == {n \in 1..Len(months) : day_match(date_as_str, 5 + months[n]) > 0}
    IN  IF ~ (Len(date_as_str) >= 4 /\ IsDigits(SubSeq(date_as_str, 1, 4)))
        THEN Raise("ValueError")
        ELSE IF fits = {} THEN Raise("ValueError")
        ELSE LET n == CHOOSE n \in fits : \A k \in fits : n <= k
                 m_len == months[n]
                 d_len == day_match(date_as_str, 5 + m_len)
                 y == DecimalValue(SubSeq(date_as_str, 1, 4))
                 m == DecimalValue(SubSeq(date_as_str, 5, 4 + m_len))
                 d == day_value(SubSeq(date_as_str, 5 + m_len, 4 + m_len + d_len))
             IN  IF 4 + m_len + d_len # Len(date_as_str) THEN Raise("ValueError")
                 ELSE IF ~ IsCalendarDate(y, m, d) THEN Raise("ValueError")
                 ELSE Date(y, m, d)

\* ExpiryDate.from_str
ExpiryDate_from_str(date_as_str) ==
    LET as_date == strptime_Ymd(date_as_str) IN
    IF IsRaise(as_date) THEN as_date
    ELSE ExpiryDate(as_date.year, as_date.month, as_date.day)

\* ExpiryDate.as_str: strftime("%Y%m%d"); the C library writes %Y without
\* leading zeros, so a year before 1000 has fewer than four digits.
ExpiryDate_as_str(e) == Decimal(e.year) \o ZeroPad(e.month, 2) \o ZeroPad(e.day, 2)

\* ExpiryDate.date()
ExpiryDate_date(e) == Date(e.year, e.month, e.day)

\* ExpiryDate.next_business_day
ExpiryDate_next_business_day(e) ==
    LET next_bday == add_business_days(ExpiryDate_date(e), 1)
    IN  ExpiryDate(next_bday.year, next_bday.month, next_bday.day)

\* ExpiryDate.previous_business_day
ExpiryDate_previous_business_day(e) ==
    LET prev_bday == add_business_days(ExpiryDate_date(e), -1)
    IN  ExpiryDate(prev_bday.year, prev_bday.month, prev_bday.day)

-----------------------------------------------------------------------------
(* SingleContractDate *)

\* A slip in _normalize_date_str: a monthly date padded to the first of the month.
normalize_date_str_pad01(date_str) ==
    IF Len(date_str) = 6 THEN StrObj(date_str \o "01")
    ELSE IF Len(date_str) = 8 THEN StrObj(date_str)
    ELSE Raise("ValueError")

\* SingleContractDate._normalize_date_str: the normalized string as StrObj,
\* or the ValueError it raises.
normalize_date_str(date_str) ==
    IF Len(date_str) = 6 THEN StrObj(date_str \o "00")
    ELSE IF Len(date_str) = 8 THEN StrObj(date_str)
    ELSE Raise("ValueError")

\* SingleContractDate.__init__
SingleContractDate(date_str, expiry_date, approx_expiry_offset) ==
    LET n == normalize_date_str(date_str) IN
    IF IsRaise(n) THEN n
    ELSE [type |-> "SingleContractDate",
          date_str |-> n.str,
          expiry_date |-> expiry_date,
          approx_expiry_offset |-> approx_expiry_offset]

IsSingleContractDate(v) == "type" \in DOMAIN v /\ v.type = "SingleContractDate"

\* A slip in is_monthly: one trailing zero is taken for the padding.
is_monthly_one_zero(d) == EndsWith(d.date_str, "0")

is_monthly(d) == EndsWith(d.date_str, "00")

is_daily(d) == ~ is_monthly(d)

\* A slip in original_format: the padding of a monthly date is kept.
original_format_normalized(d) == d.date_str

original_format(d) ==
    IF EndsWith(d.date_str, "00") THEN SubSeq(d.date_str, 1, Len(d.date_str) - 2)
    ELSE d.date_str

year(d) == PyInt(SubSeq(d.date_str, 1, 4))

month(d) == PyInt(SubSeq(d.date_str, 5, 6))

day(d) == IF is_monthly(d) THEN None ELSE PyInt(SubSeq(d.date_str, 7, 8))

QUARTERLY_MONTHS == {3, 6, 9, 12}

\* A slip in next_contract_month: past December the year is not carried.
roll_forward_no_carry(m, y) == IF m + 1 > 12 THEN <<1, y>> ELSE <<m + 1, y>>

\* next_contract_month: (next_month, next_year) one month after (m, y)
roll_forward(m, y) == IF m + 1 > 12 THEN <<1, y + 1>> ELSE <<m + 1, y>>

\* previous_contract_month: (prev_month, prev_year) one month before (m, y)
roll_backward(m, y) == IF m - 1 < 1 THEN <<12, y - 1>> ELSE <<m - 1, y>>

\* next_contract_month: the loop "while next_month not in QUARTERLY_MONTHS"
RECURSIVE next_quarterly(_)
next_quarterly(my) ==
    IF my[1] \in QUARTERLY_MONTHS THEN my
    ELSE IF my[1] + 1 > 12 THEN next_quarterly(<<1, my[2] + 1>>)
    ELSE next_quarterly(<<my[1] + 1, my[2]>>)

\* A slip in previous_contract_month: the loop passes January without
\* carrying the year.
RECURSIVE previous_quarterly_no_carry(_)
previous_quarterly_no_carry(my) ==
    IF my[1] \in QUARTERLY_MONTHS THEN my
    ELSE IF my[1] - 1 < 1 THEN previous_quarterly_no_carry(<<12, my[2]>>)
    ELSE previous_quarterly_no_carry(<<my[1] - 1, my[2]>>)

\* previous_contract_month: the loop "while prev_month not in QUARTERLY_MONTHS"
RECURSIVE previous_quarterly(_)
previous_quarterly(my) ==
    IF my[1] \in QUARTERLY_MONTHS THEN my
    ELSE IF my[1] - 1 < 1 THEN previous_quarterly(<<12, my[2] - 1>>)
    ELSE previous_quarterly(<<my[1] - 1, my[2]>>)

\* A slip in next/previous_contract_month: the new instance is built with
\* the defaults, no expiry date and offset 0.
rolled_with_defaults(self, my) ==
    SingleContractDate(ZeroPad(my[2], 4) \o ZeroPad(my[1], 2), None, 0)

\* A slip in next/previous_contract_month: the day of the receiver is kept.
rolled_keeping_day(self, my) ==
    SingleContractDate(ZeroPad(my[2], 4) \o ZeroPad(my[1], 2) \o SubSeq(self.date_str, 7, 8),
                       self.expiry_date, self.approx_expiry_offset)

\* next/previous_contract_month: the instance returned for (month, year),
\* SingleContractDate(f"{year:04d}{month:02d}", expiry_date=self._expiry_date,
\* approx_expiry_offset=self._approx_expiry_offset)
rolled(self, my) ==
    SingleContractDate(ZeroPad(my[2], 4) \o ZeroPad(my[1], 2),
                       self.expiry_date, self.approx_expiry_offset)

\* SingleContractDate.next_contract_month: the new instance, or the
\* ValueError of int() or of the constructor
next_contract_month(self, quarterly_only) ==
    IF IsRaise(month(self)) THEN month(self)
    ELSE IF IsRaise(year(self)) THEN year(self)
    ELSE LET one == roll_forward(month(self).val, year(self).val) IN
         rolled(self, IF quarterly_only THEN next_quarterly(one) ELSE one)

\* SingleContractDate.previous_contract_month
previous_contract_month(self, quarterly_only) ==
    IF IsRaise(month(self)) THEN month(self)
    ELSE IF IsRaise(year(self)) THEN year(self)
    ELSE LET one == roll_backward(month(self).val, year(self).val) IN
         rolled(self, IF quarterly_only THEN previous_quarterly(one) ELSE one)

FUTURES_MONTH_CODES ==
    [m \in 1..12 |-> <<"F", "G", "H", "J", "K", "M", "N", "Q", "U", "V", "X", "Z">>[m]]

\* SingleContractDate.letter_month: FUTURES_MONTH_CODES[self.month]
letter_month(d) ==
    IF IsRaise(month(d)) THEN month(d)
    ELSE IF month(d).val \in DOMAIN FUTURES_MONTH_CODES
         THEN StrObj(FUTURES_MONTH_CODES[month(d).val])
         ELSE Raise("KeyError")

\* ExpiryDate(year, month, day) as datetime builds it: ValueError unless the
\* three numbers are a date of the calendar.
new_ExpiryDate(y, m, d) ==
    IF IsCalendarDate(y, m, d) THEN ExpiryDate(y, m, d) ELSE Raise("ValueError")

\* A slip in approximate_expiry_date: the day is not clamped to the month.
clamp_skipped(offset_days, max_day) == offset_days

\* approximate_expiry_date: actual_day = min(offset_days, max_day)
clamp(offset_days, max_day) == IF offset_days < max_day THEN offset_days ELSE max_day

\* SingleContractDate.approximate_expiry_date(offset_days); offset_days is
\* None or IntObj(k).  calendar.monthrange raises IllegalMonthError, a
\* ValueError, for a month outside 1..12.
approximate_expiry_date(self, offset_days) ==
    LET given == IF offset_days = None THEN self.approx_expiry_offset ELSE offset_days.val
        k == IF given = 0 THEN 15 ELSE given
    IN  IF IsRaise(year(self)) THEN year(self)
        ELSE IF IsRaise(month(self)) THEN month(self)
        ELSE IF month(self).val \notin 1..12 THEN Raise("ValueError")
        ELSE new_ExpiryDate(year(self).val, month(self).val,
                            clamp(k, DaysInMonth(year(self).val, month(self).val)))

-----------------------------------------------------------------------------
(* ContractDate *)

\* A list of SingleContractDate that _parse_input returns.
SeqObj(items) == [ok |-> TRUE, items |-> items]

\* One item of a list handed to ContractDate: the body of the loop of _parse_input.
parse_item(item, expiry_date, approx_expiry_offset) ==
    IF item.type = "str"
    THEN SingleContractDate(item.value, expiry_date, approx_expiry_offset)
    ELSE IF item.type = "SingleContractDate" THEN item
    ELSE Raise("ValueError")

\* The loop of _parse_input over a list, stopping at the first item that raises.
RECURSIVE parse_items(_, _, _)
parse_items(items, expiry_date, approx_expiry_offset) ==
    IF Len(items) = 0 THEN SeqObj(<<>>)
    ELSE LET first == parse_item(Head(items), expiry_date, approx_expiry_offset) IN
         IF IsRaise(first) THEN first
         ELSE LET rest == parse_items(Tail(items), expiry_date, approx_expiry_offset) IN
              IF IsRaise(rest) THEN rest
              ELSE SeqObj(<<first>> \o rest.items)

\* ContractDate._parse_input
parse_input(contract_input, expiry_date, approx_expiry_offset) ==
    IF contract_input.type = "str"
    THEN LET d == SingleContractDate(contract_input.value, expiry_date,
                                     approx_expiry_offset) IN
         IF IsRaise(d) THEN d ELSE SeqObj(<<d>>)
    ELSE IF contract_input.type = "SingleContractDate" THEN SeqObj(<<contract_input>>)
    ELSE IF contract_input.type = "list"
    THEN parse_items(contract_input.value, expiry_date, approx_expiry_offset)
    ELSE Raise("ValueError")

\* ContractDate.__init__
ContractDate(contract_date_input, expiry_date, approx_expiry_offset) ==
    LET dates == parse_input(contract_date_input, expiry_date, approx_expiry_offset) IN
    IF IsRaise(dates) THEN dates
    ELSE [type |-> "ContractDate",
          contract_dates |-> dates.items,
          expiry_date |-> expiry_date,
          approx_expiry_offset |-> approx_expiry_offset]

ContractDate_is_single_contract(c) == Len(c.contract_dates) = 1

ContractDate_is_spread_contract(c) == Len(c.contract_dates) > 1

\* ContractDate.create_empty: cls("")
ContractDate_create_empty == ContractDate(PyStr(""), None, 0)

ContractDate_is_empty(c) ==
    Len(c.contract_dates) = 1 /\ original_format(c.contract_dates[1]) = ""

\* The sort key of front_contract, back_contract and FuturesContract.__lt__:
\* (x.year, x.month, x.day or 0), or the ValueError that int() raises.
date_key(d) ==
    LET y == year(d)
        m == month(d)
        dd == day(d)
    IN IF IsRaise(y) THEN y
       ELSE IF IsRaise(m) THEN m
       ELSE IF IsRaise(dd) THEN dd
       ELSE [ok |-> TRUE, key |-> <<y.val, m.val, IF dd = None THEN 0 ELSE dd.val>>]

\* s < t on tuples of three integers
TupleLess(s, t) ==
    \/ s[1] < t[1]
    \/ s[1] = t[1] /\ s[2] < t[2]
    \/ s[1] = t[1] /\ s[2] = t[2] /\ s[3] < t[3]

\* ContractDate.front_contract: min(..., key=...) returns the first element
\* of least key, and raises ValueError on an empty list.
ContractDate_front_contract(c) ==
    LET ds == c.contract_dates IN
    IF Len(ds) = 0 THEN Raise("ValueError")
    ELSE IF \E i \in 1..Len(ds) : IsRaise(date_key(ds[i])) THEN Raise("ValueError")
    ELSE ds[CHOOSE i \in 1..Len(ds) :
              /\ \A j \in 1..Len(ds) : ~ TupleLess(date_key(ds[j]).key, date_key(ds[i]).key)
              /\ \A j \in 1..(i - 1) : TupleLess(date_key(ds[i]).key, date_key(ds[j]).key)]

\* ContractDate.back_contract: max(..., key=...) returns the first element
\* of greatest key, and raises ValueError on an empty list.
ContractDate_back_contract(c) ==
    LET ds == c.contract_dates IN
    IF Len(ds) = 0 THEN Raise("ValueError")
    ELSE IF \E i \in 1..Len(ds) : IsRaise(date_key(ds[i])) THEN Raise("ValueError")
    ELSE ds[CHOOSE i \in 1..Len(ds) :
              /\ \A j \in 1..Len(ds) : ~ TupleLess(date_key(ds[i]).key, date_key(ds[j]).key)
              /\ \A j \in 1..(i - 1) : TupleLess(date_key(ds[j]).key, date_key(ds[i]).key)]

\* SingleContractDate.__eq__, both sides SingleContractDate
SingleContractDate_eq(d, e) == d.date_str = e.date_str

\* A slip in ContractDate.__eq__: the first dates alone are compared.
ContractDate_eq_first_date(c, d) ==
    /\ Len(c.contract_dates) > 0
    /\ Len(d.contract_dates) > 0
    /\ SingleContractDate_eq(c.contract_dates[1], d.contract_dates[1])

\* ContractDate.__eq__, both sides ContractDate: list equality of the dates
ContractDate_eq(c, d) ==
    /\ Len(c.contract_dates) = Len(d.contract_dates)
    /\ \A i \in 1..Len(c.contract_dates) :
          SingleContractDate_eq(c.contract_dates[i], d.contract_dates[i])

\* ContractDate.as_spread_string
as_spread_string(c, separator) ==
    Join([i \in 1..Len(c.contract_dates) |-> original_format(c.contract_dates[i])],
         separator)

\* ContractDate.__str__
ContractDate_str(c) ==
    IF ContractDate_is_single_contract(c) THEN original_format(c.contract_dates[1])
    ELSE as_spread_string(c, "-")

\* ContractDate.as_dict: the dict it returns; the keys expiry_date and
\* approx_expiry_offset are Missing when as_dict leaves them out.
as_dict(c) ==
    [type |-> "dict",
     contract_dates |-> [i \in 1..Len(c.contract_dates) |-> original_format(c.contract_dates[i])],
     is_single |-> ContractDate_is_single_contract(c),
     is_spread |-> ContractDate_is_spread_contract(c),
     expiry_date |-> IF c.expiry_date # None THEN StrObj(ExpiryDate_as_str(c.expiry_date))
                     ELSE Missing,
     approx_expiry_offset |-> IF c.approx_expiry_offset # 0 THEN IntObj(c.approx_expiry_offset)
                              ELSE Missing]

\* A slip in from_dict: the first date alone is taken also for a spread.
from_dict_first_date(data_dict) ==
    LET contract_dates == data_dict.contract_dates
        expiry_date == IF data_dict.expiry_date # Missing
                       THEN ExpiryDate_from_str(data_dict.expiry_date.str)
                       ELSE None
        approx_expiry_offset == IF data_dict.approx_expiry_offset # Missing
                                THEN data_dict.approx_expiry_offset.val ELSE 0
    IN  IF IsRaise(expiry_date) THEN expiry_date
        ELSE IF Len(contract_dates) = 0 THEN ContractDate(PyList(<<>>), expiry_date, approx_expiry_offset)
        ELSE ContractDate(PyStr(contract_dates[1]), expiry_date, approx_expiry_offset)

\* ContractDate.from_dict
from_dict(data_dict) ==
    LET contract_dates == data_dict.contract_dates
        contract_input == IF Len(contract_dates) = 1 THEN PyStr(contract_dates[1])
                          ELSE PyList([i \in 1..Len(contract_dates) |-> PyStr(contract_dates[i])])
        expiry_date == IF data_dict.expiry_date # Missing
                       THEN ExpiryDate_from_str(data_dict.expiry_date.str)
                       ELSE None
        approx_expiry_offset == IF data_dict.approx_expiry_offset # Missing
                                THEN data_dict.approx_expiry_offset.val ELSE 0
    IN  IF IsRaise(expiry_date) THEN expiry_date
        ELSE ContractDate(contract_input, expiry_date, approx_expiry_offset)

\* A slip in single_contract_date: the first date is returned for a spread.
single_contract_date_first(c) ==
    IF Len(c.contract_dates) = 0 THEN Raise("ValueError") ELSE c.contract_dates[1]

\* ContractDate.single_contract_date
single_contract_date(c) ==
    IF ~ ContractDate_is_single_contract(c) THEN Raise("ValueError")
    ELSE c.contract_dates[1]

-----------------------------------------------------------------------------
(* FuturesInstrument *)

\* FuturesInstrument.__init__ (the open attribute bag is left out: no
\* operation modelled here reads it)
FuturesInstrument(instrument_code) ==
    [type |-> "FuturesInstrument",
     instrument_code |-> IF instrument_code # "" THEN Upper(instrument_code) ELSE ""]

FuturesInstrument_is_empty(i) == i.instrument_code = ""

\* FuturesInstrument.__eq__, both sides FuturesInstrument
FuturesInstrument_eq(i, j) == i.instrument_code = j.instrument_code

-----------------------------------------------------------------------------
(* FuturesContract *)

\* FuturesContract.__init__
FuturesContract(instrument, contract_date) ==
    IF instrument.type \notin {"str", "FuturesInstrument"} THEN Raise("ValueError")
    ELSE LET i == IF instrument.type = "str" THEN FuturesInstrument(instrument.value)
                  ELSE instrument
             c == IF contract_date.type \in {"str", "list", "SingleContractDate"}
                  THEN ContractDate(contract_date, None, 0)
                  ELSE IF contract_date.type = "ContractDate" THEN contract_date
                  ELSE Raise("ValueError")
         IN IF IsRaise(c) THEN c
            ELSE [type |-> "FuturesContract", instrument |-> i, contract_date |-> c]

IsFuturesContract(v) == "type" \in DOMAIN v /\ v.type = "FuturesContract"

\* FuturesContract.create_empty: cls("", "")
FuturesContract_create_empty == FuturesContract(PyStr(""), PyStr(""))

FuturesContract_is_empty(c) ==
    FuturesInstrument_is_empty(c.instrument) /\ ContractDate_is_empty(c.contract_date)

FuturesContract_instrument_code(c) == c.instrument.instrument_code

\* FuturesContract.__eq__, both sides FuturesContract
FuturesContract_eq(a, b) ==
    /\ FuturesInstrument_eq(a.instrument, b.instrument)
    /\ ContractDate_eq(a.contract_date, b.contract_date)

\* FuturesContract.__lt__, both sides FuturesContract: a BoolObj, or what
\* front_contract raises.
FuturesContract_lt(a, b) ==
    IF FuturesContract_instrument_code(a) # FuturesContract_instrument_code(b)
    THEN BoolObj(StrLess(FuturesContract_instrument_code(a),
                         FuturesContract_instrument_code(b)))
    ELSE LET self_front == ContractDate_front_contract(a.contract_date)
             other_front == ContractDate_front_contract(b.contract_date)
         IN IF IsRaise(self_front) THEN self_front
            ELSE IF IsRaise(other_front) THEN other_front
            ELSE BoolObj(TupleLess(date_key(self_front).key, date_key(other_front).key))

\* FuturesContract.__le__: self == other or self < other
FuturesContract_le(a, b) ==
    IF FuturesContract_eq(a, b) THEN BoolObj(TRUE) ELSE FuturesContract_lt(a, b)

FuturesContract_is_single_contract(c) == ContractDate_is_single_contract(c.contract_date)

FuturesContract_date_str(c) == ContractDate_str(c.contract_date)

\* FuturesContract.key
FuturesContract_key(c) ==
    FuturesContract_instrument_code(c) \o "/" \o FuturesContract_date_str(c)

\* FuturesContract.__hash__
FuturesContract_hash(c) == StrHash(FuturesContract_key(c))

\* FuturesContract.from_key: the contract, or the ValueError raised for a
\* key without "/" or by the constructors.
FuturesContract_from_key(key_string) ==
    IF ~ Contains(key_string, "/") THEN Raise("ValueError")
    ELSE LET at == Find(key_string, "/")
             instrument_code == SubSeq(key_string, 1, at - 1)
             date_part == SubSeq(key_string, at + 1, Len(key_string))
             date_parts == Split(date_part, "-")
             contract_date ==
                 IF Contains(date_part, "-")
                 THEN PyList([i \in 1..Len(date_parts) |-> PyStr(date_parts[i])])
                 ELSE PyStr(date_part)
         IN FuturesContract(PyStr(instrument_code), contract_date)

\* FuturesContract.letter_month
FuturesContract_letter_month(c) ==
    IF ~ FuturesContract_is_single_contract(c) THEN Raise("ValueError")
    ELSE letter_month(single_contract_date(c.contract_date))

\* FuturesContract.approximate_expiry_date(offset_days)
FuturesContract_approximate_expiry_date(c, offset_days) ==
    IF FuturesContract_is_single_contract(c)
    THEN approximate_expiry_date(single_contract_date(c.contract_date), offset_days)
    ELSE None

-----------------------------------------------------------------------------
(* ListOfFutureContracts: a Python list, which this class extends with     *)
(* __init__ and validate; append, extend, insert and item assignment are   *)
(* the ones it inherits from list.                                         *)

\* ListOfFutureContracts.validate: ValueError at the first item that is no
\* FuturesContract
validate(items) ==
    IF \A i \in 1..Len(items) : IsFuturesContract(items[i]) THEN None
    ELSE Raise("ValueError")

\* list.insert(index, item), 0 <= index <= len
list_insert(items, index, item) ==
    SubSeq(items, 1, index) \o <<item>> \o SubSeq(items, index + 1, Len(items))

\* list.__setitem__(index, item), 0 <= index < len
list_setitem(items, index, item) == [items EXCEPT ![index + 1] = item]

\* ListOfFutureContracts(items), items a list: the new collection,
\* or the ValueError of validate
ListOfFutureContracts(items) ==
    IF IsRaise(validate(items)) THEN validate(items)
    ELSE [type |-> "ListOfFutureContracts", items |-> items]

\* l == m on lists: the same length and equal elements, by FuturesContract.__eq__
list_eq(l, m) ==
    /\ Len(l.items) = Len(m.items)
    /\ \A i \in 1..Len(l.items) : FuturesContract_eq(l.items[i], m.items[i])

\* set(contract.key for contract in items)
key_set(items) == {FuturesContract_key(items[i]) : i \in 1..Len(items)}

\* A slip in unique: of the items of one key the last one is kept.
unique_keeps_last(self) ==
    ListOfFutureContracts(
        SelectSeq([i \in 1..Len(self.items) |-> [at |-> i, contract |-> self.items[i]]],
                  LAMBDA x : \A j \in (x.at + 1)..Len(self.items) :
                      FuturesContract_key(self.items[j]) # FuturesContract_key(x.contract)))

\* unique: the loop over self, with the keys seen and the items kept so far
RECURSIVE unique_loop(_, _, _)
unique_loop(items, seen, unique_contracts) ==
    IF Len(items) = 0 THEN unique_contracts
    ELSE LET contract == Head(items) IN
         IF FuturesContract_key(contract) \notin seen
         THEN unique_loop(Tail(items), seen \cup {FuturesContract_key(contract)},
                          Append(unique_contracts, contract))
         ELSE unique_loop(Tail(items), seen, unique_contracts)

\* ListOfFutureContracts.unique
unique(self) == ListOfFutureContracts(unique_loop(self.items, {}, <<>>))

\* A slip in difference: a contract is dropped when other_list holds that
\* very contract, not when it holds one of the same key.
difference_by_element(self, other_list) ==
    ListOfFutureContracts(
        SelectSeq(self.items,
                  LAMBDA contract : \A i \in 1..Len(other_list.items) :
                      other_list.items[i] # contract))

\* ListOfFutureContracts.difference
difference(self, other_list) ==
    LET other_keys == key_set(other_list.items) IN
    ListOfFutureContracts(
        SelectSeq(self.items, LAMBDA contract : FuturesContract_key(contract) \notin other_keys))

\* A slip in intersection: contracts of a key already kept are dropped.
intersection_unique(self, other_list) ==
    LET other_keys == key_set(other_list.items) IN
    unique(ListOfFutureContracts(
        SelectSeq(self.items, LAMBDA contract : FuturesContract_key(contract) \in other_keys)))

\* ListOfFutureContracts.intersection
intersection(self, other_list) ==
    LET other_keys == key_set(other_list.items) IN
    ListOfFutureContracts(
        SelectSeq(self.items, LAMBDA contract : FuturesContract_key(contract) \in other_keys))

\* A slip in union: the combined list is returned as it is.
union_not_unique(self, other_list) ==
    ListOfFutureContracts(self.items \o other_list.items)

\* ListOfFutureContracts.union
union(self, other_list) ==
    LET combined == ListOfFutureContracts(self.items) IN
    IF IsRaise(combined) THEN combined
    ELSE unique([combined EXCEPT !.items = @ \o other_list.items])

\* A slip in union: self itself is extended, not a copy of it.
union_in_place(self, other_list) ==
    LET combined == [self EXCEPT !.items = @ \o other_list.items] IN
    [self |-> combined,
     other_list |-> IF other_list = self THEN combined ELSE other_list,
     result |-> unique(combined)]

\* The three lists after self.union(other_list): combined is a new list made
\* from self, so combined.extend(other_list) changes neither self nor
\* other_list.
union_call(self, other_list) ==
    [self |-> self, other_list |-> other_list, result |-> union(self, other_list)]

\* SingleContractDate.as_date: the (year, month, day) of the datetime.date,
\* the first of the month for a monthly date, or the ValueError of int() or
\* of datetime.date.
as_date(d) ==
    LET k == date_key(d) IN
    IF IsRaise(k) THEN k
    ELSE LET dd == IF is_monthly(d) THEN 1 ELSE k.key[3] IN
         IF IsCalendarDate(k.key[1], k.key[2], dd)
         THEN [ok |-> TRUE, key |-> <<k.key[1], k.key[2], dd>>]
         ELSE Raise("ValueError")

\* sorted(items, reverse=reverse), where less[i][j] tells whether the
\* comparison puts items[i] before items[j] and ranks the items (two items
\* of which neither is less are ties): ascending, ties in the order of
\* items; with reverse descending, ties still in the order of items.
sorted(items, less, reverse) ==
    LET n == Len(items)
        rank == <<>> \o [i \in 1..n |->
                    1 + Cardinality({j \in 1..n :
                          \/ (IF reverse THEN less[i][j] ELSE less[j][i])
                          \/ (j < i /\ ~ (IF reverse THEN less[j][i] ELSE less[i][j]))})]
    IN  [k \in 1..n |-> items[CHOOSE i \in 1..n : rank[i] = k]]

\* The key of sort_by_date: x.contract_date.front_contract.as_date()
sort_date_key(contract) ==
    LET front == ContractDate_front_contract(contract.contract_date) IN
    IF IsRaise(front) THEN front ELSE as_date(front)

\* ListOfFutureContracts.sort_by_date(reverse)
sort_by_date(self, reverse) ==
    LET n == Len(self.items)
        keys == <<>> \o [i \in 1..n |-> sort_date_key(self.items[i])]
    IN  IF \E i \in 1..n : IsRaise(keys[i]) THEN Raise("ValueError")
        ELSE ListOfFutureContracts(
                 sorted(self.items,
                        <<>> \o [i \in 1..n |->
                           <<>> \o [j \in 1..n |-> TupleLess(keys[i].key, keys[j].key)]],
                        reverse))

\* ListOfFutureContracts.sort_by_instrument(reverse): sorted() with
\* FuturesContract.__lt__
sort_by_instrument(self, reverse) ==
    LET n == Len(self.items)
        lt == <<>> \o [i \in 1..n |->
                 <<>> \o [j \in 1..n |-> FuturesContract_lt(self.items[i], self.items[j])]]
    IN  IF \E i \in 1..n : \E j \in 1..n : i # j /\ IsRaise(lt[i][j])
        THEN Raise("ValueError")
        ELSE ListOfFutureContracts(
                 sorted(self.items,
                        <<>> \o [i \in 1..n |-> <<>> \o [j \in 1..n |-> lt[i][j].truth]],
                        reverse))

\* A slip in group_by_instrument: the contract is put at the front of its group.
group_add_front(groups, contract) ==
    LET instrument_code == FuturesContract_instrument_code(contract)
        present == IF \E i \in 1..Len(groups) : groups[i].key = instrument_code
                   THEN groups
                   ELSE Append(groups, [key |-> instrument_code,
                                        value |-> ListOfFutureContracts(<<>>)])
    IN [i \in 1..Len(present) |->
           IF present[i].key = instrument_code
           THEN [present[i] EXCEPT !.value.items = <<contract>> \o @]
           ELSE present[i]]

\* group_by_instrument: the body of the loop for one contract
group_add(groups, contract) ==
    LET instrument_code == FuturesContract_instrument_code(contract)
        present == IF ~ (\E i \in 1..Len(groups) : groups[i].key = instrument_code)
                   THEN Append(groups, [key |-> instrument_code,
                                        value |-> ListOfFutureContracts(<<>>)])
                   ELSE groups
    IN [i \in 1..Len(present) |->
           IF present[i].key = instrument_code
           THEN [present[i] EXCEPT !.value.items = Append(@, contract)]
           ELSE present[i]]

\* group_by_instrument: the loop over self
RECURSIVE group_loop(_, _)
group_loop(items, groups) ==
    IF Len(items) = 0 THEN groups
    ELSE group_loop(Tail(items), group_add(groups, Head(items)))

\* ListOfFutureContracts.group_by_instrument: a dict, as its items (code,
\* group) in insertion order
group_by_instrument(self) == [type |-> "dict", items |-> group_loop(self.items, <<>>)]

-----------------------------------------------------------------------------
(* DictFutureContractPrices: a Python dict from contract-date string to a  *)
(* price table, held as its items (key, value) in insertion order, and the *)
(* attribute _all_contract_date_str_sorted that caches the sorted keys.    *)

\* The dictionary's attribute _all_contract_date_str_sorted is not set.
Absent == [type |-> "Absent"]

\* The value of a column that add_contract_prices fills in.
NullValue == "None"

ExpectedColumns == {"BID", "ASK", "FINAL_PRICE"}

\* A pandas DataFrame: its index (dates) and, per column name, the values.
DataFrame(index, columns) == [type |-> "DataFrame", index |-> index, columns |-> columns]

\* add_contract_prices: every expected column the table lacks is added, None
\* in every row.
fill_expected_columns(df) ==
    [df EXCEPT !.columns =
        [c \in (DOMAIN df.columns) \cup ExpectedColumns |->
            IF c \in DOMAIN df.columns THEN df.columns[c]
            ELSE [i \in 1..Len(df.index) |-> NullValue]]]

\* list(d.keys())
dict_keys(d) == [i \in 1..Len(d) |-> d[i].key]

KeysOf(d) == {d[i].key : i \in 1..Len(d)}

\* key in d
dict_contains(d, key) == key \in KeysOf(d)

\* d[key] = value: a present key keeps its place, a new key goes last.
dict_setitem(d, key, value) ==
    IF dict_contains(d, key)
    THEN [i \in 1..Len(d) |-> IF d[i].key = key THEN [key |-> key, value |-> value] ELSE d[i]]
    ELSE Append(d, [key |-> key, value |-> value])

\* sorted(strs)
sorted_strs(strs) == SortSeq(strs, LAMBDA a, b : StrLess(a, b))

\* A slip in add_contract_prices: the cached list is left in place.
clear_cache_skipped(c) == c

\* add_contract_prices: the attribute after "if hasattr: delattr"
clear_cache(c) == Absent

\* sorted_contract_date_str: the cached list if the attribute is set, else
\* the keys sorted.
sorted_result(d, c) == IF c # Absent THEN c ELSE PyList(sorted_strs(dict_keys(d)))

\* The attribute after sorted_contract_date_str: _get_and_set_sorted_contract_date_str
\* stores what it computed.
sorted_cache(d, c) == sorted_result(d, c)

\* d[key]
dict_getitem(d, key) == d[CHOOSE i \in 1..Len(d) : d[i].key = key].value

\* The value pandas puts where an outer join has no row.
NaN == "NaN"

\* pandas isnull: None and NaN are null
isnull(v) == v \in {NullValue, NaN}

\* series[date] of contract_df[price_type] reindexed on a joint index: the
\* value of the row of that date, NaN where the table has no such row.
series_at(df, price_type, date) ==
    IF \E i \in 1..Len(df.index) : df.index[i] = date
    THEN df.columns[price_type][CHOOSE i \in 1..Len(df.index) : df.index[i] = date]
    ELSE NaN

\* sort_index on the union of the series' dates: each date once, ascending
RECURSIVE sort_index(_)
sort_index(dates) ==
    IF dates = {} THEN <<>>
    ELSE LET first == CHOOSE x \in dates : \A y \in dates \ {x} : StrLess(x, y)
         IN  <<first>> \o sort_index(dates \ {first})

\* joint_data: one column per key of sorted_contract_date_str() whose table
\* has the column price_type; pd.concat(axis=1) joins the series on the union
\* of their dates and sort_index orders the dates.  No series at all gives
\* the empty DataFrame.
joint_data(d, c, price_type) ==
    LET keys == sorted_result(d, c).value
        series_list == SelectSeq(keys, LAMBDA k : price_type \in DOMAIN dict_getitem(d, k).columns)
        names == {series_list[i] : i \in 1..Len(series_list)}
        dates == UNION {{dict_getitem(d, k).index[i] : i \in 1..Len(dict_getitem(d, k).index)} :
                          k \in names}
        index == sort_index(dates)
    IN  DataFrame(index,
                  [k \in names |-> [i \in 1..Len(index) |->
                                      series_at(dict_getitem(d, k), price_type, index[i])]])

\* A slip in matched_prices: dropna(how = "all"), which keeps a date that
\* any one of the contracts has a value at.
dropna_how_all(joint, available) ==
    SelectSeq(joint.index,
              LAMBDA date : \E k \in {available[i] : i \in 1..Len(available)} :
                  ~ isnull(joint.columns[k][CHOOSE i \in 1..Len(joint.index) : joint.index[i] = date]))

\* joint_data[available_contracts].dropna(): the dates of the rows in which
\* no selected column is null
dropna(joint, available) ==
    SelectSeq(joint.index,
              LAMBDA date : \A k \in {available[i] : i \in 1..Len(available)} :
                  ~ isnull(joint.columns[k][CHOOSE i \in 1..Len(joint.index) : joint.index[i] = date]))

\* matched_prices: what it returns or raises.  contracts_to_match is None or
\* a list; the requested keys that are no column of joint_data are left out.
matched_data(d, c, contracts_to_match, price_type) ==
    LET joint == joint_data(d, c, price_type)
        requested == IF contracts_to_match = None THEN dict_keys(d)
                     ELSE contracts_to_match.value
        available_contracts == SelectSeq(requested, LAMBDA k : k \in DOMAIN joint.columns)
        rows == dropna(joint, available_contracts)
    IN  IF Len(available_contracts) = 0 THEN Raise("ValueError")
        ELSE IF Len(rows) = 0 THEN Raise("ValueError")
        ELSE DataFrame(rows,
                       [k \in {available_contracts[i] : i \in 1..Len(available_contracts)} |->
                          [i \in 1..Len(rows) |->
                             joint.columns[k][CHOOSE j \in 1..Len(joint.index) :
                                                 joint.index[j] = rows[i]]]])

-----------------------------------------------------------------------------
(* The values the constructors are tried on *)

YearParts == {"1999", "2024", "20X4", "024"}

MonthParts == {"01", "02", "03", "12", "00", "13", "X3"}

DayParts == {"", "00", "01", "15", "29", "30", "31", "32", "1X", "1", "150"}

\* Strings of 5 to 9 characters, and the empty string: well-formed monthly and
\* daily dates, impossible months and days, letters, and wrong lengths.
DateStrings ==
    {y \o m \o d : y \in YearParts, m \in MonthParts, d \in DayParts} \cup {""}

ExpiryDates == {None, ExpiryDate(2024, 3, 15)}

ExpiryOffsets == {0, 20}

-----------------------------------------------------------------------------
(* Specification SpecSingle: SingleContractDate(date_str, expiry_date,     *)
(* approx_expiry_offset) on every string of DateStrings.                   *)

IdleSingle == scd_args = NotYet /\ scd = NotYet

IdleContractDate == cd_args = NotYet /\ cd = NotYet /\ fc = NotYet

IdleOrder == cmp_args = NotYet /\ cmp = NotYet

IdleList == contracts = <<>> /\ list_op = NotYet

IdlePrices == prices = <<>> /\ cache = Absent /\ returned = NotYet /\ dict_op = NotYet

IdleKey == key_args = NotYet /\ key_res = NotYet

IdleRoll == roll_dates = <<>> /\ roll_calls = <<>>

IdleSetOps == set_args = NotYet /\ set_res = NotYet

IdleCall == call_args = NotYet /\ call_res = NotYet

\* The components that the specifications above leave idle.
IdleOthers == IdleKey /\ IdleRoll /\ IdleSetOps /\ IdleCall

InitSingle ==
    /\ scd_args \in [date_str : DateStrings,
                     expiry_date : ExpiryDates,
                     approx_expiry_offset : ExpiryOffsets]
    /\ scd = NotYet
    /\ IdleContractDate /\ IdleOrder /\ IdleList /\ IdlePrices /\ IdleOthers

\* scd = SingleContractDate(date_str, expiry_date, approx_expiry_offset)
ConstructSingle ==
    /\ scd = NotYet
    /\ scd' = SingleContractDate(scd_args.date_str, scd_args.expiry_date,
                                 scd_args.approx_expiry_offset)
    /\ UNCHANGED <<scd_args, varsContractDate, varsOrder, varsList, varsPrices,
                 varsKey, varsRoll, varsSetOps, varsCall>>

NextSingle == ConstructSingle

SpecSingle == InitSingle /\ [][NextSingle]_vars

\* The constructor has returned an instance.
SingleConstructed == scd # NotYet /\ ~ IsRaise(scd)

\* A date string of 6 or 8 characters, all digits, with month digits 01..12.
NumericDateString(s) ==
    /\ Len(s) \in {6, 8}
    /\ IsDigits(s)
    /\ DecimalValue(SubSeq(s, 5, 6)) \in 1..12

C7_SixCharsMonthly ==
    (scd # NotYet /\ Len(scd_args.date_str) = 6) =>
        /\ ~ IsRaise(scd)
        /\ is_monthly(scd)
        /\ ~ is_daily(scd)
        /\ day(scd) = None
        /\ scd.date_str = scd_args.date_str \o "00"

\* The 6-character string "202403" has been constructed as "20240300".
C7_Witness ==
    /\ SingleConstructed
    /\ scd_args.date_str = "202403"
    /\ scd.date_str = "20240300"
    /\ is_monthly(scd)

\* C8 as stated: construction succeeds only for a string of exactly 6 or 8
\* numeric characters whose month digits are 01..12, so every constructed
\* SingleContractDate has a month in 1..12.
C8_ConstructionValidates ==
    SingleConstructed =>
        /\ NumericDateString(scd_args.date_str)
        /\ IsInt(month(scd))
        /\ month(scd).val \in 1..12

-----------------------------------------------------------------------------
(* Specification SpecContractDate: ContractDate(...) on a date string, a   *)
(* SingleContractDate, a list of either of length 0..MaxLegs, or a value   *)
(* of another type; ContractDate.create_empty() and                        *)
(* FuturesContract.create_empty().                                         *)

\* The longest list handed to ContractDate.
MaxLegs == 2

SeqsUpTo(S, n) == UNION {[1..k -> S] : k \in 0..n}

\* What a list handed to ContractDate may hold.
LegItems ==
    {PyStr("202403"), PyStr("202406"), PyStr("20240315"), PyStr("20240"),
     SingleContractDate("202409", None, 0),
     [type |-> "int", value |-> 7]}

ContractDateInputs ==
    {PyStr(s) : s \in {"202403", "20240315", "20240300", "2024X3", "20240", "0", ""}}
    \cup {SingleContractDate("202409", None, 0),
          SingleContractDate("20240920", ExpiryDate(2024, 3, 15), 20)}
    \cup {PyList(l) : l \in SeqsUpTo(LegItems, MaxLegs)}
    \cup {[type |-> "int", value |-> 7]}

InitContractDate ==
    /\ cd_args \in
          [call : {"ContractDate"},
           contract_date_input : ContractDateInputs,
           expiry_date : ExpiryDates,
           approx_expiry_offset : ExpiryOffsets]
          \cup {[call |-> "ContractDate.create_empty"],
                [call |-> "FuturesContract.create_empty"]}
    /\ cd = NotYet
    /\ fc = NotYet
    /\ IdleSingle /\ IdleOrder /\ IdleList /\ IdlePrices /\ IdleOthers

\* cd = ContractDate(contract_date_input, expiry_date, approx_expiry_offset)
ConstructContractDate ==
    /\ cd_args.call = "ContractDate"
    /\ cd = NotYet
    /\ cd' = ContractDate(cd_args.contract_date_input, cd_args.expiry_date,
                          cd_args.approx_expiry_offset)
    /\ UNCHANGED <<cd_args, fc, varsSingle, varsOrder, varsList, varsPrices,
                 varsKey, varsRoll, varsSetOps, varsCall>>

\* cd = ContractDate.create_empty()
ContractDateCreateEmpty ==
    /\ cd_args.call = "ContractDate.create_empty"
    /\ cd = NotYet
    /\ cd' = ContractDate_create_empty
    /\ UNCHANGED <<cd_args, fc, varsSingle, varsOrder, varsList, varsPrices,
                 varsKey, varsRoll, varsSetOps, varsCall>>

\* fc = FuturesContract.create_empty()
FuturesContractCreateEmpty ==
    /\ cd_args.call = "FuturesContract.create_empty"
    /\ fc = NotYet
    /\ fc' = FuturesContract_create_empty
    /\ UNCHANGED <<cd_args, cd, varsSingle, varsOrder, varsList, varsPrices,
                 varsKey, varsRoll, varsSetOps, varsCall>>

NextContractDate ==
    \/ ConstructContractDate
    \/ ContractDateCreateEmpty
    \/ FuturesContractCreateEmpty

SpecContractDate == InitContractDate /\ [][NextContractDate]_vars

\* The constructor has returned a ContractDate.
ContractDateConstructed == cd # NotYet /\ ~ IsRaise(cd)

\* C4 as stated: for every ContractDate that can be constructed, a list of
\* any length included, exactly one of is_single_contract and
\* is_spread_contract is true, decided by the number of stored dates alone.
C4_SingleXorSpread ==
    ContractDateConstructed =>
        /\ ContractDate_is_single_contract(cd) # ContractDate_is_spread_contract(cd)
        /\ ContractDate_is_single_contract(cd) <=> (Len(cd.contract_dates) = 1)
        /\ ContractDate_is_spread_contract(cd) <=> (Len(cd.contract_dates) > 1)

\* C5 as stated: ContractDate.create_empty() and FuturesContract.create_empty()
\* succeed and return a value whose is_empty() is true, and is_empty() is
\* false for every ContractDate built from a non-empty date string.
C5_CreateEmptyIsEmpty ==
    /\ (cd_args.call = "ContractDate.create_empty" /\ cd # NotYet) =>
          (~ IsRaise(cd) /\ ContractDate_is_empty(cd))
    /\ (cd_args.call = "FuturesContract.create_empty" /\ fc # NotYet) =>
          (~ IsRaise(fc) /\ FuturesContract_is_empty(fc))
    /\ (/\ cd_args.call = "ContractDate"
        /\ ContractDateConstructed
        /\ cd_args.contract_date_input.type = "str"
        /\ cd_args.contract_date_input.value # "") =>
          ~ ContractDate_is_empty(cd)

-----------------------------------------------------------------------------
(* Specification SpecOrder: a < b, a == b, b < a and a <= b on every pair  *)
(* of FuturesContracts of OrderContracts.                                  *)

OrderCodes == {"ES1", "CL1", "es1"}

\* Single contracts (monthly and daily) and spreads, some with the same
\* front leg.
OrderDates ==
    {PyStr("202403"), PyStr("202406"), PyStr("20240315"),
     PyList(<<PyStr("202403"), PyStr("202406")>>),
     PyList(<<PyStr("202403"), PyStr("202409")>>),
     PyList(<<PyStr("202406"), PyStr("202403")>>)}

OrderContracts == {FuturesContract(PyStr(c), d) : c \in OrderCodes, d \in OrderDates}

InitOrder ==
    /\ cmp_args \in [a : OrderContracts, b : OrderContracts]
    /\ cmp = NotYet
    /\ IdleSingle /\ IdleContractDate /\ IdleList /\ IdlePrices /\ IdleOthers

\* cmp = (a < b, a == b, b < a, a <= b)
Compare ==
    /\ cmp = NotYet
    /\ cmp' = [lt_ab |-> FuturesContract_lt(cmp_args.a, cmp_args.b),
               eq_ab |-> BoolObj(FuturesContract_eq(cmp_args.a, cmp_args.b)),
               lt_ba |-> FuturesContract_lt(cmp_args.b, cmp_args.a),
               le_ab |-> FuturesContract_le(cmp_args.a, cmp_args.b)]
    /\ UNCHANGED <<cmp_args, varsSingle, varsContractDate, varsList, varsPrices,
                 varsKey, varsRoll, varsSetOps, varsCall>>

NextOrder == Compare

SpecOrder == InitOrder /\ [][NextOrder]_vars

\* v is the boolean True
IsTrue(v) == ~ IsRaise(v) /\ v.truth

\* C10 as stated: for any two FuturesContracts a and b exactly one of a < b,
\* a == b, b < a holds, and a <= b holds exactly when a < b or a == b.
C10_Trichotomy ==
    cmp # NotYet =>
        /\ \/ IsTrue(cmp.lt_ab) /\ ~ IsTrue(cmp.eq_ab) /\ ~ IsTrue(cmp.lt_ba)
           \/ ~ IsTrue(cmp.lt_ab) /\ IsTrue(cmp.eq_ab) /\ ~ IsTrue(cmp.lt_ba)
           \/ ~ IsTrue(cmp.lt_ab) /\ ~ IsTrue(cmp.eq_ab) /\ IsTrue(cmp.lt_ba)
        /\ IsTrue(cmp.le_ab) <=> (IsTrue(cmp.lt_ab) \/ IsTrue(cmp.eq_ab))

-----------------------------------------------------------------------------
(* Specification SpecList: a ListOfFutureContracts is constructed and then *)
(* extended with append, extend, insert and item assignment.               *)

\* The longest list the model grows.
MaxListLen == 3

\* The longest list handed to the constructor or to extend.
MaxArgLen == 2

\* Values put into the list: two FuturesContracts, a key string, None.
ListItems ==
    {FuturesContract(PyStr("ES1"), PyStr("202403")),
     FuturesContract(PyStr("ES1"), PyStr("202406")),
     PyStr("ES1/202403"),
     None}

InitList ==
    /\ contracts = <<>>
    /\ list_op = NotYet
    /\ IdleSingle /\ IdleContractDate /\ IdleOrder /\ IdlePrices /\ IdleOthers

\* The constructor has returned the list.
ListExists == list_op # NotYet /\ ~ (list_op.op = "__init__" /\ list_op.raised)

\* ListOfFutureContracts(arg): extend with arg unless it is None, then
\* validate; when validate raises there is no list.
ListInit(arg) ==
    /\ list_op = NotYet
    /\ LET items == IF arg = None THEN <<>> ELSE arg.value IN
       IF IsRaise(validate(items))
       THEN contracts' = <<>> /\ list_op' = [op |-> "__init__", raised |-> TRUE]
       ELSE contracts' = items /\ list_op' = [op |-> "__init__", raised |-> FALSE]
    /\ UNCHANGED <<varsSingle, varsContractDate, varsOrder, varsPrices,
                 varsKey, varsRoll, varsSetOps, varsCall>>

\* contracts.append(item)
ListAppend(item) ==
    /\ ListExists
    /\ Len(contracts) < MaxListLen
    /\ contracts' = Append(contracts, item)
    /\ list_op' = [op |-> "append", raised |-> FALSE]
    /\ UNCHANGED <<varsSingle, varsContractDate, varsOrder, varsPrices,
                 varsKey, varsRoll, varsSetOps, varsCall>>

\* contracts.extend(items)
ListExtend(items) ==
    /\ ListExists
    /\ Len(contracts) + Len(items) <= MaxListLen
    /\ contracts' = contracts \o items
    /\ list_op' = [op |-> "extend", raised |-> FALSE]
    /\ UNCHANGED <<varsSingle, varsContractDate, varsOrder, varsPrices,
                 varsKey, varsRoll, varsSetOps, varsCall>>

\* contracts.insert(index, item)
ListInsert(index, item) ==
    /\ ListExists
    /\ Len(contracts) < MaxListLen
    /\ index \in 0..Len(contracts)
    /\ contracts' = list_insert(contracts, index, item)
    /\ list_op' = [op |-> "insert", raised |-> FALSE]
    /\ UNCHANGED <<varsSingle, varsContractDate, varsOrder, varsPrices,
                 varsKey, varsRoll, varsSetOps, varsCall>>

\* contracts[index] = item; IndexError when index = len
ListSetItem(index, item) ==
    /\ ListExists
    /\ index \in 0..Len(contracts)
    /\ IF index < Len(contracts)
       THEN /\ contracts' = list_setitem(contracts, index, item)
            /\ list_op' = [op |-> "__setitem__", raised |-> FALSE]
       ELSE /\ contracts' = contracts
            /\ list_op' = [op |-> "__setitem__", raised |-> TRUE]
    /\ UNCHANGED <<varsSingle, varsContractDate, varsOrder, varsPrices,
                 varsKey, varsRoll, varsSetOps, varsCall>>

NextList ==
    \/ \E arg \in {None} \cup {PyList(l) : l \in SeqsUpTo(ListItems, MaxArgLen)} :
          ListInit(arg)
    \/ \E item \in ListItems : ListAppend(item)
    \/ \E items \in SeqsUpTo(ListItems, MaxArgLen) : ListExtend(items)
    \/ \E index \in 0..MaxListLen, item \in ListItems : ListInsert(index, item)
    \/ \E index \in 0..MaxListLen, item \in ListItems : ListSetItem(index, item)

SpecList == InitList /\ [][NextList]_vars

\* C1 as stated: after construction and after any sequence of extend,
\* append, insert and item assignment, every element of the collection is
\* a FuturesContract.
C1_OnlyFuturesContracts ==
    ListExists => \A i \in 1..Len(contracts) : IsFuturesContract(contracts[i])

-----------------------------------------------------------------------------
(* Specifications SpecPricesAdd and SpecPrices: calls on one               *)
(* DictFutureContractPrices.  SpecPricesAdd inserts with                   *)
(* add_contract_prices only; SpecPrices also with d[key] = table.          *)

\* The most contracts the dictionary is grown to.
MaxContracts == 3

PriceKeys == {"20240300", "20240600", "20240315", "202403"}

PriceFrames ==
    {DataFrame(<<"2024-01-02", "2024-01-03">>,
               [c \in {"BID", "ASK", "FINAL_PRICE"} |-> <<"100", "101">>]),
     DataFrame(<<"2024-01-02">>, [c \in {"FINAL_PRICE"} |-> <<"100">>])}

InitPrices ==
    /\ IdlePrices
    /\ IdleSingle /\ IdleContractDate /\ IdleOrder /\ IdleList /\ IdleOthers

\* The record of a call: its name, for add_contract_prices whether it
\* deleted a cached list, and whether the call before it was such an
\* add_contract_prices.
Call(name, cleared) ==
    [op |-> name,
     cleared |-> cleared,
     after_clear |-> dict_op # NotYet /\ dict_op.op = "add_contract_prices" /\ dict_op.cleared]

\* d.add_contract_prices(contract_date_str, price_df)
add_contract_prices(contract_date_str, price_df) ==
    /\ dict_contains(prices, contract_date_str) \/ Len(prices) < MaxContracts
    /\ prices' = dict_setitem(prices, contract_date_str, fill_expected_columns(price_df))
    /\ cache' = clear_cache(cache)
    /\ returned' = None
    /\ dict_op' = Call("add_contract_prices", cache # Absent)
    /\ UNCHANGED <<varsSingle, varsContractDate, varsOrder, varsList,
                 varsKey, varsRoll, varsSetOps, varsCall>>

\* d.sorted_contract_date_str()
sorted_contract_date_str ==
    /\ returned' = sorted_result(prices, cache)
    /\ cache' = sorted_cache(prices, cache)
    /\ dict_op' = Call("sorted_contract_date_str", FALSE)
    /\ UNCHANGED <<prices, varsSingle, varsContractDate, varsOrder, varsList,
                 varsKey, varsRoll, varsSetOps, varsCall>>

\* d.last_contract_date_str()
last_contract_date_str ==
    /\ LET sorted_dates == sorted_result(prices, cache).value IN
       returned' = IF Len(sorted_dates) > 0 THEN PyStr(sorted_dates[Len(sorted_dates)])
                   ELSE None
    /\ cache' = sorted_cache(prices, cache)
    /\ dict_op' = Call("last_contract_date_str", FALSE)
    /\ UNCHANGED <<prices, varsSingle, varsContractDate, varsOrder, varsList,
                 varsKey, varsRoll, varsSetOps, varsCall>>

\* d.first_contract_date_str()
first_contract_date_str ==
    /\ LET sorted_dates == sorted_result(prices, cache).value IN
       returned' = IF Len(sorted_dates) > 0 THEN PyStr(sorted_dates[1]) ELSE None
    /\ cache' = sorted_cache(prices, cache)
    /\ dict_op' = Call("first_contract_date_str", FALSE)
    /\ UNCHANGED <<prices, varsSingle, varsContractDate, varsOrder, varsList,
                 varsKey, varsRoll, varsSetOps, varsCall>>

\* d[contract_date_str] = price_df, the item assignment of dict
setitem(contract_date_str, price_df) ==
    /\ dict_contains(prices, contract_date_str) \/ Len(prices) < MaxContracts
    /\ prices' = dict_setitem(prices, contract_date_str, price_df)
    /\ returned' = None
    /\ dict_op' = Call("__setitem__", FALSE)
    /\ UNCHANGED <<cache, varsSingle, varsContractDate, varsOrder, varsList,
                 varsKey, varsRoll, varsSetOps, varsCall>>

NextPricesAdd ==
    \/ \E k \in PriceKeys, df \in PriceFrames : add_contract_prices(k, df)
    \/ sorted_contract_date_str
    \/ last_contract_date_str
    \/ first_contract_date_str

SpecPricesAdd == InitPrices /\ [][NextPricesAdd]_vars

NextPrices ==
    \/ NextPricesAdd
    \/ \E k \in PriceKeys, df \in PriceFrames : setitem(k, df)

SpecPrices == InitPrices /\ [][NextPrices]_vars

\* d.matched_prices(contracts_to_match, price_type); joint_data reads the
\* sorted keys through sorted_contract_date_str(), which stores them.
matched_prices(contracts_to_match, price_type) ==
    /\ returned' = matched_data(prices, cache, contracts_to_match, price_type)
    /\ cache' = sorted_cache(prices, cache)
    /\ dict_op' = [op |-> "matched_prices", cleared |-> FALSE, after_clear |-> FALSE,
                   contracts_to_match |-> contracts_to_match, price_type |-> price_type]
    /\ UNCHANGED <<prices, varsSingle, varsContractDate, varsOrder, varsList,
                 varsKey, varsRoll, varsSetOps, varsCall>>

\* l holds exactly the keys present in the dictionary, each once, ascending.
ExactlyKeysAscending(l) ==
    /\ Len(l) = Len(prices)
    /\ {l[i] : i \in 1..Len(l)} = KeysOf(prices)
    /\ \A i \in 1..Len(l) : \A j \in 1..Len(l) : i < j => StrLess(l[i], l[j])

\* C2: with inserts made by add_contract_prices only, every
\* sorted_contract_date_str call returns exactly the keys present at that
\* moment in ascending order, first_contract_date_str and
\* last_contract_date_str return the least and the greatest of them (None
\* when there is none), and a list that is cached is the list of the present
\* keys: one cached before an add_contract_prices call is not returned after it.
C2_SortedReflectsKeys ==
    /\ cache # Absent => ExactlyKeysAscending(cache.value)
    /\ (dict_op # NotYet /\ dict_op.op = "sorted_contract_date_str") =>
          (returned.type = "list" /\ ExactlyKeysAscending(returned.value))
    /\ (dict_op # NotYet /\ dict_op.op = "first_contract_date_str") =>
          IF Len(prices) = 0 THEN returned = None
          ELSE /\ returned.type = "str"
               /\ returned.value \in KeysOf(prices)
               /\ \A k \in KeysOf(prices) : ~ StrLess(k, returned.value)
    /\ (dict_op # NotYet /\ dict_op.op = "last_contract_date_str") =>
          IF Len(prices) = 0 THEN returned = None
          ELSE /\ returned.type = "str"
               /\ returned.value \in KeysOf(prices)
               /\ \A k \in KeysOf(prices) : ~ StrLess(returned.value, k)

\* sorted_contract_date_str has returned two keys right after an
\* add_contract_prices call that deleted a cached list.
C2_Witness ==
    /\ dict_op # NotYet
    /\ dict_op.op = "sorted_contract_date_str"
    /\ dict_op.after_clear
    /\ returned = PyList(<<"20240300", "20240600">>)

\* C3 as stated: whichever way a key is inserted, add_contract_prices or
\* d[key] = table, the next sorted_contract_date_str call includes it: what
\* the call returns holds every key present.
C3_EveryInsertInvalidates ==
    (dict_op # NotYet /\ dict_op.op = "sorted_contract_date_str") =>
        KeysOf(prices) \subseteq {returned.value[i] : i \in 1..Len(returned.value)}

\* C9 as stated: after any sequence of add_contract_prices calls every key
\* is a contract-date string in the normalized form: 8 characters, digits.
C9_KeysNormalized ==
    \A k \in KeysOf(prices) : Len(k) = 8 /\ IsDigits(k)

-----------------------------------------------------------------------------
(* Specification SpecKey: a.key, b.key, a == b and hash(a) == hash(b) on    *)
(* every pair of FuturesContracts built from KeyArgs, and                  *)
(* FuturesContract.from_key on their keys and on strings without "/".      *)

\* Instrument codes: upper and lower case, empty, and one holding "/".
KeyCodes == {"ES1", "es1", "CL1", "", "EUR/USD"}

KeyInstruments == {PyStr(c) : c \in KeyCodes} \cup {FuturesInstrument("es1")}

\* Contract dates: monthly in 6 and in 8 characters, daily, lists of 0, 1
\* and 2 dates, a ContractDate with an expiry date, a SingleContractDate.
KeyDates ==
    {PyStr("202403"), PyStr("20240300"), PyStr("20240315"), PyStr("202406"),
     PyList(<<>>),
     PyList(<<PyStr("202403")>>),
     PyList(<<PyStr("202403"), PyStr("202406")>>),
     PyList(<<PyStr("202406"), PyStr("202403")>>),
     ContractDate(PyStr("202403"), ExpiryDate(2024, 3, 15), 20),
     SingleContractDate("20240315", None, 0)}

\* The arguments of FuturesContract(instrument, contract_date)
KeyArgs == [instrument : KeyInstruments, contract_date : KeyDates]

KeyContracts == {FuturesContract(x.instrument, x.contract_date) : x \in KeyArgs}

KeyStrings ==
    {FuturesContract_key(c) : c \in KeyContracts} \cup {"ES1202403", "202403", ""}

InitKey ==
    /\ key_args \in [call : {"compare"}, a : KeyArgs, b : KeyArgs]
                    \cup [call : {"from_key"}, key_string : KeyStrings]
    /\ key_res = NotYet
    /\ IdleSingle /\ IdleContractDate /\ IdleOrder /\ IdleList /\ IdlePrices
    /\ IdleRoll /\ IdleSetOps /\ IdleCall

\* a = FuturesContract(...); b = FuturesContract(...);
\* key_res = (a, b, a.key, b.key, a == b, hash(a) == hash(b))
KeyCompare ==
    /\ key_args.call = "compare"
    /\ key_res = NotYet
    /\ LET a == FuturesContract(key_args.a.instrument, key_args.a.contract_date)
           b == FuturesContract(key_args.b.instrument, key_args.b.contract_date)
       IN key_res' = [a |-> a,
                      b |-> b,
                      key_a |-> FuturesContract_key(a),
                      key_b |-> FuturesContract_key(b),
                      eq_ab |-> FuturesContract_eq(a, b),
                      hash_eq |-> FuturesContract_hash(a) = FuturesContract_hash(b)]
    /\ UNCHANGED <<key_args, varsSingle, varsContractDate, varsOrder, varsList,
                   varsPrices, varsRoll, varsSetOps, varsCall>>

\* key_res = FuturesContract.from_key(key_string)
FromKey ==
    /\ key_args.call = "from_key"
    /\ key_res = NotYet
    /\ key_res' = [contract |-> FuturesContract_from_key(key_args.key_string)]
    /\ UNCHANGED <<key_args, varsSingle, varsContractDate, varsOrder, varsList,
                   varsPrices, varsRoll, varsSetOps, varsCall>>

NextKey == KeyCompare \/ FromKey

SpecKey == InitKey /\ [][NextKey]_vars

\* a and b have been built and compared.
Compared == key_args # NotYet /\ key_args.call = "compare" /\ key_res # NotYet

\* from_key has been called.
FromKeyCalled == key_args # NotYet /\ key_args.call = "from_key" /\ key_res # NotYet

\* C11: for any two FuturesContracts a and b, a == b holds exactly when
\* a.key == b.key, and equal contracts have equal hashes.
C11_EqualityAgreesWithKey ==
    Compared =>
        /\ key_res.eq_ab <=> (key_res.key_a = key_res.key_b)
        /\ key_res.eq_ab => key_res.hash_eq

\* Two contracts written differently, "es1" with "20240300" and "ES1" with
\* "202403", are equal and have the key "ES1/202403".
C11_Witness ==
    /\ Compared
    /\ key_args.a = [instrument |-> PyStr("es1"), contract_date |-> PyStr("20240300")]
    /\ key_args.b = [instrument |-> PyStr("ES1"), contract_date |-> PyStr("202403")]
    /\ key_res.eq_ab
    /\ key_res.key_a = "ES1/202403"
    /\ key_res.key_b = "ES1/202403"

\* C12 as stated: for every single-contract FuturesContract c,
\* from_key(c.key) succeeds and its key equals c.key, and a key without "/"
\* is rejected with an error.
C12_FromKeyRoundTrip ==
    FromKeyCalled =>
        /\ (\E c \in KeyContracts :
                /\ FuturesContract_is_single_contract(c)
                /\ FuturesContract_key(c) = key_args.key_string) =>
              /\ ~ IsRaise(key_res.contract)
              /\ FuturesContract_key(key_res.contract) = key_args.key_string
        /\ ~ Contains(key_args.key_string, "/") => IsRaise(key_res.contract)

\* The date of one leg as the key writes it: YYYYMM for a monthly date,
\* YYYYMMDD for a daily one.
KeyDate(d) == IF is_monthly(d) THEN SubSeq(d.date_str, 1, 6) ELSE d.date_str

\* The instrument code handed to the constructor, uppercased.
UppercasedCode(instrument) ==
    IF instrument.type = "str" THEN Upper(instrument.value)
    ELSE Upper(instrument.instrument_code)

\* C13: the key of a FuturesContract is the uppercased instrument code, then
\* "/", then the contract date in original format (YYYYMM for monthly,
\* YYYYMMDD for daily) for a single contract, or the original-format dates
\* of all legs joined by "-" in stored order for a spread.
C13_KeyFormat ==
    Compared =>
        LET ds == key_res.a.contract_date.contract_dates
            code == UppercasedCode(key_args.a.instrument)
        IN /\ Len(ds) = 1 => key_res.key_a = code \o "/" \o KeyDate(ds[1])
           /\ Len(ds) = 2 =>
                 key_res.key_a = code \o "/" \o KeyDate(ds[1]) \o "-" \o KeyDate(ds[2])
           /\ Len(ds) = 3 =>
                 key_res.key_a = code \o "/" \o KeyDate(ds[1]) \o "-" \o KeyDate(ds[2])
                                      \o "-" \o KeyDate(ds[3])

\* The spread FuturesContract("es1", ["202406", "202403"]) has the key
\* "ES1/202406-202403", and a monthly date given in 8 characters the key
\* "ES1/202403".
C13_Witness ==
    /\ Compared
    /\ key_args.a = [instrument |-> PyStr("es1"),
                     contract_date |-> PyList(<<PyStr("202406"), PyStr("202403")>>)]
    /\ key_res.key_a = "ES1/202406-202403"
    /\ key_args.b = [instrument |-> PyStr("ES1"), contract_date |-> PyStr("20240300")]
    /\ key_res.key_b = "ES1/202403"

-----------------------------------------------------------------------------
(* Specification SpecRoll: a SingleContractDate is given, and               *)
(* next_contract_month and previous_contract_month are called in a chain,  *)
(* each on the instance the call before it returned.                       *)

\* The most calls in one chain.
MaxRolls == 2

RollYears == {"1999", "2024"}

\* Every month, and the two-digit values next to them.
RollMonths ==
    {"00", "01", "02", "03", "04", "05", "06", "07", "08", "09", "10", "11", "12", "13"}

\* Monthly in 6 characters, monthly in 8 characters, daily.
RollDays == {"", "00", "15"}

InitRoll ==
    /\ \E y \in RollYears, m \in RollMonths, d \in RollDays,
          e \in ExpiryDates, o \in ExpiryOffsets :
          roll_dates = <<SingleContractDate(y \o m \o d, e, o)>>
    /\ roll_calls = <<>>
    /\ IdleSingle /\ IdleContractDate /\ IdleOrder /\ IdleList /\ IdlePrices
    /\ IdleKey /\ IdleSetOps /\ IdleCall

\* The instance the next call is made on: the one returned last.
RollReceiver == roll_dates[Len(roll_dates)]

CanRoll ==
    /\ Len(roll_dates) > 0
    /\ Len(roll_calls) < MaxRolls
    /\ IsSingleContractDate(RollReceiver)

\* d.next_contract_month(quarterly_only)
NextContractMonth(quarterly_only) ==
    /\ CanRoll
    /\ roll_dates' = Append(roll_dates, next_contract_month(RollReceiver, quarterly_only))
    /\ roll_calls' = Append(roll_calls, [op |-> "next_contract_month",
                                          quarterly_only |-> quarterly_only])
    /\ UNCHANGED <<varsSingle, varsContractDate, varsOrder, varsList, varsPrices,
                   varsKey, varsSetOps, varsCall>>

\* d.previous_contract_month(quarterly_only)
PreviousContractMonth(quarterly_only) ==
    /\ CanRoll
    /\ roll_dates' = Append(roll_dates,
                            previous_contract_month(RollReceiver, quarterly_only))
    /\ roll_calls' = Append(roll_calls, [op |-> "previous_contract_month",
                                          quarterly_only |-> quarterly_only])
    /\ UNCHANGED <<varsSingle, varsContractDate, varsOrder, varsList, varsPrices,
                   varsKey, varsSetOps, varsCall>>

NextRoll ==
    \/ \E quarterly_only \in BOOLEAN : NextContractMonth(quarterly_only)
    \/ \E quarterly_only \in BOOLEAN : PreviousContractMonth(quarterly_only)

SpecRoll == InitRoll /\ [][NextRoll]_vars

\* Call i of the chain is op with the given quarterly_only.
IsCall(i, op, quarterly_only) ==
    roll_calls[i] = [op |-> op, quarterly_only |-> quarterly_only]

\* d is a monthly contract date of a month 1..12.
MonthlyOfTheYear(d) ==
    /\ IsSingleContractDate(d)
    /\ is_monthly(d)
    /\ IsInt(month(d))
    /\ month(d).val \in 1..12

\* C14: for every monthly SingleContractDate d of a month 1..12,
\* d.next_contract_month().previous_contract_month() == d and
\* d.previous_contract_month().next_contract_month() == d, quarterly_only
\* false, December and January (where the year carries) included.
C14_RollRoundTrip ==
    \A i \in 1..(Len(roll_calls) - 1) :
        (/\ MonthlyOfTheYear(roll_dates[i])
         /\ \/ IsCall(i, "next_contract_month", FALSE)
               /\ IsCall(i + 1, "previous_contract_month", FALSE)
            \/ IsCall(i, "previous_contract_month", FALSE)
               /\ IsCall(i + 1, "next_contract_month", FALSE)) =>
            /\ IsSingleContractDate(roll_dates[i + 2])
            /\ SingleContractDate_eq(roll_dates[i + 2], roll_dates[i])

\* December 2024 has been rolled to January 2025 and back to December 2024.
C14_Witness ==
    /\ Len(roll_calls) = 2
    /\ IsCall(1, "next_contract_month", FALSE)
    /\ IsCall(2, "previous_contract_month", FALSE)
    /\ roll_dates[1].date_str = "20241200"
    /\ roll_dates[2].date_str = "20250100"
    /\ roll_dates[3].date_str = "20241200"

\* C15: next_contract_month(quarterly_only=True) returns the first quarterly
\* month (3, 6, 9 or 12) strictly after the receiver's month, in the same
\* year, or March of the next year when there is none (December);
\* previous_contract_month(quarterly_only=True) returns the last quarterly
\* month strictly before the receiver's month, in the same year, or December
\* of the year before when there is none (January, February, March).
C15_QuarterlyRoll ==
    \A i \in 1..Len(roll_calls) :
        LET self == roll_dates[i]
            new == roll_dates[i + 1]
            later == {q \in {3, 6, 9, 12} : q > month(self).val}
            earlier == {q \in {3, 6, 9, 12} : q < month(self).val}
        IN (roll_calls[i].quarterly_only /\ month(self).val \in 1..12) =>
              /\ IsSingleContractDate(new)
              /\ is_monthly(new)
              /\ roll_calls[i].op = "next_contract_month" =>
                    IF later # {}
                    THEN /\ month(new).val \in later
                         /\ \A q \in later : month(new).val <= q
                         /\ year(new) = year(self)
                    ELSE month(new).val = 3 /\ year(new).val = year(self).val + 1
              /\ roll_calls[i].op = "previous_contract_month" =>
                    IF earlier # {}
                    THEN /\ month(new).val \in earlier
                         /\ \A q \in earlier : month(new).val >= q
                         /\ year(new) = year(self)
                    ELSE month(new).val = 12 /\ year(new).val = year(self).val - 1

\* From March 2024 the quarterly previous month is December 2023, and from
\* there the quarterly next month is March 2024.
C15_Witness ==
    /\ Len(roll_calls) = 2
    /\ IsCall(1, "previous_contract_month", TRUE)
    /\ IsCall(2, "next_contract_month", TRUE)
    /\ roll_dates[1].date_str = "20240300"
    /\ roll_dates[2].date_str = "20231200"
    /\ roll_dates[3].date_str = "20240300"

\* C16: next_contract_month and previous_contract_month return a new
\* SingleContractDate whose expiry date and approx_expiry_offset are those
\* of the receiver, carried over as they are, and leave the receiver (and
\* every instance made before) unchanged.
C16_RollCarriesExpiry ==
    [][LET self == roll_dates[Len(roll_dates)]
           new == roll_dates'[Len(roll_dates')]
       IN /\ Len(roll_dates') = Len(roll_dates) + 1
          /\ SubSeq(roll_dates', 1, Len(roll_dates)) = roll_dates
          /\ IsSingleContractDate(new)
          /\ new.expiry_date = self.expiry_date
          /\ new.approx_expiry_offset = self.approx_expiry_offset]_vars

\* A contract date with the expiry date 2024-03-15 and the offset 20 has
\* been rolled from December 2024 to January 2025: the new instance has that
\* expiry date and offset, and the receiver is as it was.
C16_Witness ==
    /\ Len(roll_calls) = 1
    /\ IsCall(1, "next_contract_month", FALSE)
    /\ roll_dates[1] = SingleContractDate("202412", ExpiryDate(2024, 3, 15), 20)
    /\ roll_dates[2] = SingleContractDate("202501", ExpiryDate(2024, 3, 15), 20)

-----------------------------------------------------------------------------
(* Specification SpecSetOps: one call of unique, union, difference,        *)
(* intersection, group_by_instrument, sort_by_date or sort_by_instrument   *)
(* on ListOfFutureContracts self and other_list, each built by the         *)
(* constructor from FuturesContracts.                                      *)

\* The longest self.
MaxSelfLen == 3

\* The longest other_list that is not self.
MaxOtherLen == 2

\* Two contracts of the key "ES1/202403" (one carries an expiry date),
\* another date of the same instrument, and another instrument.
SetContracts ==
    {FuturesContract(PyStr("ES1"), PyStr("202403")),
     FuturesContract(PyStr("es1"), ContractDate(PyStr("20240300"), ExpiryDate(2024, 3, 15), 20)),
     FuturesContract(PyStr("ES1"), PyStr("202406")),
     FuturesContract(PyStr("CL1"), PyStr("202403"))}

SetLists(n) == {ListOfFutureContracts(l) : l \in SeqsUpTo(SetContracts, n)}

InitSetOps ==
    /\ \E self \in SetLists(MaxSelfLen) :
          \E other_list \in SetLists(MaxOtherLen) \cup {self} :
             set_args = [self |-> self, other_list |-> other_list]
    /\ set_res = NotYet
    /\ IdleSingle /\ IdleContractDate /\ IdleOrder /\ IdleList /\ IdlePrices
    /\ IdleKey /\ IdleRoll /\ IdleCall

\* set_res = self.unique()
Unique ==
    /\ set_res' = [op |-> "unique", result |-> unique(set_args.self)]
    /\ UNCHANGED <<set_args, varsSingle, varsContractDate, varsOrder, varsList,
                   varsPrices, varsKey, varsRoll, varsCall>>

\* set_res = self.union(other_list)
Union ==
    /\ LET after == union_call(set_args.self, set_args.other_list) IN
          /\ set_res' = [op |-> "union", result |-> after.result]
          /\ set_args' = [self |-> after.self, other_list |-> after.other_list]
    /\ UNCHANGED <<varsSingle, varsContractDate, varsOrder, varsList,
                   varsPrices, varsKey, varsRoll, varsCall>>

\* set_res = self.difference(other_list)
Difference ==
    /\ set_res' = [op |-> "difference",
                   result |-> difference(set_args.self, set_args.other_list)]
    /\ UNCHANGED <<set_args, varsSingle, varsContractDate, varsOrder, varsList,
                   varsPrices, varsKey, varsRoll, varsCall>>

\* set_res = self.group_by_instrument()
GroupByInstrument ==
    /\ set_res' = [op |-> "group_by_instrument",
                   result |-> group_by_instrument(set_args.self)]
    /\ UNCHANGED <<set_args, varsSingle, varsContractDate, varsOrder, varsList,
                   varsPrices, varsKey, varsRoll, varsCall>>

\* set_res = self.intersection(other_list)
Intersection ==
    /\ set_res' = [op |-> "intersection",
                   result |-> intersection(set_args.self, set_args.other_list)]
    /\ UNCHANGED <<set_args, varsSingle, varsContractDate, varsOrder, varsList,
                   varsPrices, varsKey, varsRoll, varsCall>>

\* set_res = self.sort_by_date(reverse)
SortByDate(reverse) ==
    /\ set_res' = [op |-> "sort_by_date", reverse |-> reverse,
                   result |-> sort_by_date(set_args.self, reverse)]
    /\ UNCHANGED <<set_args, varsSingle, varsContractDate, varsOrder, varsList,
                   varsPrices, varsKey, varsRoll, varsCall>>

\* set_res = self.sort_by_instrument(reverse)
SortByInstrument(reverse) ==
    /\ set_res' = [op |-> "sort_by_instrument", reverse |-> reverse,
                   result |-> sort_by_instrument(set_args.self, reverse)]
    /\ UNCHANGED <<set_args, varsSingle, varsContractDate, varsOrder, varsList,
                   varsPrices, varsKey, varsRoll, varsCall>>

\* One call on self and other_list.
NextSetOps ==
    \/ set_res = NotYet /\ Unique
    \/ set_res = NotYet /\ Union
    \/ set_res = NotYet /\ Difference
    \/ set_res = NotYet /\ GroupByInstrument
    \/ set_res = NotYet /\ Intersection
    \/ set_res = NotYet /\ \E reverse \in BOOLEAN : SortByDate(reverse)
    \/ set_res = NotYet /\ \E reverse \in BOOLEAN : SortByInstrument(reverse)

SpecSetOps == InitSetOps /\ [][NextSetOps]_vars

\* The operation op has returned.
Returned(op) == set_res # NotYet /\ set_res.op = op

\* The keys of a sequence of contracts, in order.
KeySeq(items) == [i \in 1..Len(items) |-> FuturesContract_key(items[i])]

\* The positions of a sequence that hold the first occurrence of their value.
FirstPositions(values) ==
    {i \in 1..Len(values) : \A j \in 1..(i - 1) : values[j] # values[i]}

\* The k-th least element of a set of numbers.
KthOf(positions, k) ==
    CHOOSE i \in positions : Cardinality({j \in positions : j < i}) = k - 1

\* The values of a sequence, each once, in the order of first occurrence.
FirstSeen(values) ==
    [k \in 1..Cardinality(FirstPositions(values)) |->
        values[KthOf(FirstPositions(values), k)]]

\* C17: L.union(M) has no two elements with the same key, and its keys are
\* the keys of L followed by the keys of M that are not keys of L, in
\* first-seen order; and L.union(L).unique() equals L.unique().
C17_UnionKeys ==
    Returned("union") =>
        LET L == set_args.self.items
            M == set_args.other_list.items
            U == set_res.result
            keys_L == {FuturesContract_key(L[i]) : i \in 1..Len(L)}
        IN /\ ~ IsRaise(U)
           /\ \A i \in 1..Len(U.items) : \A j \in 1..Len(U.items) :
                 i # j => FuturesContract_key(U.items[i]) # FuturesContract_key(U.items[j])
           /\ KeySeq(U.items) =
                 FirstSeen(KeySeq(L))
                     \o FirstSeen(SelectSeq(KeySeq(M), LAMBDA k : k \notin keys_L))
           /\ set_args.other_list = set_args.self =>
                 list_eq(unique(U), unique(set_args.self))

\* L = [ES1/202403, ES1/202406, ES1/202403] has been united with itself:
\* the union has the keys ES1/202403, ES1/202406, and its unique() equals
\* L.unique().
C17_Witness ==
    /\ Returned("union")
    /\ KeySeq(set_args.self.items) = <<"ES1/202403", "ES1/202406", "ES1/202403">>
    /\ set_args.other_list = set_args.self
    /\ KeySeq(set_res.result.items) = <<"ES1/202403", "ES1/202406">>
    /\ list_eq(unique(set_res.result), unique(set_args.self))

\* C18: unique() keeps, for each distinct key, exactly the first element
\* with that key, in the order of first occurrence.
C18_UniqueFirstPerKey ==
    Returned("unique") =>
        LET L == set_args.self.items
            firsts == FirstPositions(KeySeq(L))
            R == set_res.result
        IN /\ ~ IsRaise(R)
           /\ Len(R.items) = Cardinality(firsts)
           /\ \A k \in 1..Len(R.items) : R.items[k] = L[KthOf(firsts, k)]

\* unique() of a list of three contracts, the first the ES1/202403 contract
\* that carries an expiry date, the last the one without, keeps the first
\* and the contract between them.
C18_Witness ==
    /\ Returned("unique")
    /\ KeySeq(set_args.self.items) = <<"ES1/202403", "CL1/202403", "ES1/202403">>
    /\ set_args.self.items[1].contract_date.expiry_date = ExpiryDate(2024, 3, 15)
    /\ set_args.self.items[3].contract_date.expiry_date = None
    /\ set_res.result.items = <<set_args.self.items[1], set_args.self.items[2]>>

\* C19: L.difference(M) contains no contract whose key is the key of a
\* contract in M, and L.difference(L) is empty.
C19_DifferenceByKey ==
    Returned("difference") =>
        LET M == set_args.other_list.items
            D == set_res.result
        IN /\ ~ IsRaise(D)
           /\ \A i \in 1..Len(D.items) : \A j \in 1..Len(M) :
                 FuturesContract_key(D.items[i]) # FuturesContract_key(M[j])
           /\ set_args.other_list = set_args.self => D.items = <<>>

\* The difference of [ES1/202403 with an expiry date, ES1/202406] and
\* [ES1/202403 without one] is [ES1/202406].
C19_Witness ==
    /\ Returned("difference")
    /\ KeySeq(set_args.self.items) = <<"ES1/202403", "ES1/202406">>
    /\ set_args.self.items[1].contract_date.expiry_date = ExpiryDate(2024, 3, 15)
    /\ KeySeq(set_args.other_list.items) = <<"ES1/202403">>
    /\ set_args.other_list.items[1].contract_date.expiry_date = None
    /\ KeySeq(set_res.result.items) = <<"ES1/202406">>

\* C20: group_by_instrument() returns one group per instrument code present,
\* the groups in the order of first occurrence of their code, and each group
\* holds exactly the contracts of its code in their original relative order,
\* duplicates kept.
C20_GroupsPartition ==
    Returned("group_by_instrument") =>
        LET L == set_args.self.items
            G == set_res.result.items
            codes == [i \in 1..Len(L) |-> FuturesContract_instrument_code(L[i])]
        IN /\ [g \in 1..Len(G) |-> G[g].key] = FirstSeen(codes)
           /\ \A g \in 1..Len(G) :
                 G[g].value.items =
                     SelectSeq(L, LAMBDA c : FuturesContract_instrument_code(c) = G[g].key)

\* [ES1/202406, CL1/202403, ES1/202403] is grouped into ES1 with the two ES1
\* contracts in that order, then CL1.
C20_Witness ==
    /\ Returned("group_by_instrument")
    /\ KeySeq(set_args.self.items) = <<"ES1/202406", "CL1/202403", "ES1/202403">>
    /\ Len(set_res.result.items) = 2
    /\ set_res.result.items[1].key = "ES1"
    /\ KeySeq(set_res.result.items[1].value.items) = <<"ES1/202406", "ES1/202403">>
    /\ set_res.result.items[2].key = "CL1"

-----------------------------------------------------------------------------
(* Specification SpecMatched: tables with different dates and with null    *)
(* prices are stored with add_contract_prices and d[key] = table, and      *)
(* matched_prices is called on lists of stored and of unknown keys.        *)

\* The longest contracts_to_match list.
MaxMatchLen == 2

MatchKeys == {"202403", "202406"}

MatchFrames ==
    {DataFrame(<<"2024-01-02", "2024-01-03">>,
               [c \in {"FINAL_PRICE"} |-> <<"100", "101">>]),
     DataFrame(<<"2024-01-04", "2024-01-03">>,
               [c \in {"FINAL_PRICE", "BID"} |->
                  IF c = "BID" THEN <<"198", "199">> ELSE <<NullValue, "200">>]),
     DataFrame(<<"2024-01-04">>, [c \in {"BID"} |-> <<"298">>])}

PriceTypes == {"FINAL_PRICE", "BID"}

ContractsToMatch ==
    {None} \cup {PyList(l) : l \in SeqsUpTo(MatchKeys \cup {"202409"}, MaxMatchLen)}

NextMatched ==
    \/ \E k \in MatchKeys, df \in MatchFrames : add_contract_prices(k, df)
    \/ \E k \in MatchKeys, df \in MatchFrames : setitem(k, df)
    \/ \E l \in ContractsToMatch, t \in PriceTypes : matched_prices(l, t)

SpecMatched == InitPrices /\ [][NextMatched]_vars

\* The keys contracts_to_match asks for: the list, or every stored key.
Requested ==
    IF dict_op.contracts_to_match = None THEN KeysOf(prices)
    ELSE {dict_op.contracts_to_match.value[i] :
            i \in 1..Len(dict_op.contracts_to_match.value)}

\* The contract k is stored and its own table has, at the given date, a
\* non-null value in the column price_type.
HasPrice(k, price_type, date) ==
    /\ dict_contains(prices, k)
    /\ price_type \in DOMAIN dict_getitem(prices, k).columns
    /\ \E i \in 1..Len(dict_getitem(prices, k).index) :
          /\ dict_getitem(prices, k).index[i] = date
          /\ dict_getitem(prices, k).columns[price_type][i] # NullValue

StoredDates ==
    UNION {{prices[n].value.index[i] : i \in 1..Len(prices[n].value.index)} :
             n \in 1..Len(prices)}

\* The requested keys that matched_prices takes into account: those listed
\* by sorted_contract_date_str() (the list the call has read and stored)
\* whose table has the column price_type.
Counted ==
    {k \in Requested :
        /\ k \in {cache.value[i] : i \in 1..Len(cache.value)}
        /\ dict_contains(prices, k)
        /\ dict_op.price_type \in DOMAIN dict_getitem(prices, k).columns}

\* returned is a table whose dates are exactly the given ones, ascending.
ReturnsDates(dates) ==
    /\ ~ IsRaise(returned)
    /\ {returned.index[i] : i \in 1..Len(returned.index)} = dates
    /\ \A i \in 1..Len(returned.index) : \A j \in 1..Len(returned.index) :
          i < j => StrLess(returned.index[i], returned.index[j])

MatchedCalled == dict_op # NotYet /\ dict_op.op = "matched_prices"

-----------------------------------------------------------------------------
(* Specification SpecBusinessDays: add_business_days on the days around    *)
(* a leap day and around a turn of the year, and the two ExpiryDate        *)
(* methods that call it.                                                   *)

\* The most business days added or subtracted.
MaxDays == 3

\* 28 December 2023 (a Thursday) to 3 January 2024, and 26 February 2024 (a
\* Monday) to 3 March 2024.
BusinessDates ==
    {Date(2023, 12, d) : d \in 28..31} \cup {Date(2024, 1, d) : d \in 1..3}
    \cup {Date(2024, 2, d) : d \in 26..29} \cup {Date(2024, 3, d) : d \in 1..3}

InitBusinessDays ==
    /\ call_args \in [call : {"add_business_days"}, date_obj : BusinessDates,
                      days : (0 - MaxDays)..MaxDays]
                     \cup [call : {"next_business_day", "previous_business_day"},
                           self : {ExpiryDate(d.year, d.month, d.day) : d \in BusinessDates}]
    /\ call_res = NotYet
    /\ IdleSingle /\ IdleContractDate /\ IdleOrder /\ IdleList /\ IdlePrices
    /\ IdleKey /\ IdleRoll /\ IdleSetOps

\* call_res = add_business_days(date_obj, days)
AddBusinessDays ==
    /\ call_args.call = "add_business_days"
    /\ call_res = NotYet
    /\ call_res' = add_business_days(call_args.date_obj, call_args.days)
    /\ UNCHANGED <<call_args, varsSingle, varsContractDate, varsOrder, varsList,
                   varsPrices, varsKey, varsRoll, varsSetOps>>

\* call_res = self.next_business_day()
NextBusinessDay ==
    /\ call_args.call = "next_business_day"
    /\ call_res = NotYet
    /\ call_res' = ExpiryDate_next_business_day(call_args.self)
    /\ UNCHANGED <<call_args, varsSingle, varsContractDate, varsOrder, varsList,
                   varsPrices, varsKey, varsRoll, varsSetOps>>

\* call_res = self.previous_business_day()
PreviousBusinessDay ==
    /\ call_args.call = "previous_business_day"
    /\ call_res = NotYet
    /\ call_res' = ExpiryDate_previous_business_day(call_args.self)
    /\ UNCHANGED <<call_args, varsSingle, varsContractDate, varsOrder, varsList,
                   varsPrices, varsKey, varsRoll, varsSetOps>>

NextBusinessDays == AddBusinessDays \/ NextBusinessDay \/ PreviousBusinessDay

SpecBusinessDays == InitBusinessDays /\ [][NextBusinessDays]_vars

\* The day number of a date of 2023 or 2024, counted from 1 January 2023.
DayNumber(d) ==
    LET before == [m \in 1..12 |->
                     IF m = 1 THEN 0
                     ELSE IF m = 2 THEN 31
                     ELSE IF m = 3 THEN 59
                     ELSE IF m = 12 THEN 334
                     ELSE 0]
    IN  IF d.year = 2023 THEN before[d.month] + d.day
        ELSE 365 + before[d.month] + d.day + (IF d.month > 2 THEN 1 ELSE 0)

\* 1 January 2023 was a Sunday: day number k is a Monday-to-Friday day
\* unless it is a Sunday (k % 7 = 1) or a Saturday (k % 7 = 0).
MonToFri(k) == (k % 7) \notin {0, 1}

\* The number of Monday-to-Friday days among the day numbers from..to.
BusinessDaysIn(from, to) == Cardinality({k \in from..to : MonToFri(k)})

Called(name) == call_args # NotYet /\ call_args.call = name /\ call_res # NotYet

\* r is the n-th Monday-to-Friday day strictly after d (n > 0) or the
\* |n|-th strictly before d (n < 0), and d itself for n = 0.
NthBusinessDay(d, n, r) ==
    /\ n = 0 => DayNumber(r) = DayNumber(d)
    /\ n > 0 => /\ DayNumber(r) > DayNumber(d)
                /\ MonToFri(DayNumber(r))
                /\ BusinessDaysIn(DayNumber(d) + 1, DayNumber(r)) = n
    /\ n < 0 => /\ DayNumber(r) < DayNumber(d)
                /\ MonToFri(DayNumber(r))
                /\ BusinessDaysIn(DayNumber(r), DayNumber(d) - 1) = 0 - n

\* C22: add_business_days(date, n) is the n-th Monday-to-Friday day strictly
\* after date for n > 0, the |n|-th strictly before date for n < 0, and date
\* itself for n = 0, also on a weekend; Friday + 1 is the Monday three days
\* later and Monday - 1 the Friday three days earlier; for n # 0 the result
\* is a business day.  next_business_day and previous_business_day are the
\* cases n = 1 and n = -1.
C22_BusinessDays ==
    /\ Called("add_business_days") =>
          /\ call_res.type = "date"
          /\ IsCalendarDate(call_res.year, call_res.month, call_res.day)
          /\ NthBusinessDay(call_args.date_obj, call_args.days, call_res)
          /\ call_args.days = 0 => call_res = call_args.date_obj
          /\ (DayNumber(call_args.date_obj) % 7 = 6 /\ call_args.days = 1)
                => DayNumber(call_res) = DayNumber(call_args.date_obj) + 3
          /\ (DayNumber(call_args.date_obj) % 7 = 2 /\ call_args.days = -1)
                => DayNumber(call_res) = DayNumber(call_args.date_obj) - 3
    /\ Called("next_business_day") =>
          /\ call_res.type = "ExpiryDate"
          /\ NthBusinessDay(call_args.self, 1, call_res)
    /\ Called("previous_business_day") =>
          /\ call_res.type = "ExpiryDate"
          /\ NthBusinessDay(call_args.self, -1, call_res)

\* Friday 1 March 2024 plus one business day is Monday 4 March 2024.
C22_Witness ==
    /\ Called("add_business_days")
    /\ call_args.date_obj = Date(2024, 3, 1)
    /\ call_args.days = 1
    /\ call_res = Date(2024, 3, 4)

-----------------------------------------------------------------------------
(* Specification SpecAccessors: one call of an accessor of a               *)
(* SingleContractDate, a ContractDate or a FuturesContract: the            *)
(* approximate expiry date, the single date, the month letter, the front   *)
(* and the back leg, and the dict form and back.                           *)

\* The most dates of a ContractDate an accessor is called on.
MaxAccessorLegs == 3

\* Months of 28, 29, 30 and 31 days, monthly and daily.
ApproxDates ==
    {SingleContractDate(s, e, o) :
        s \in {"202302", "202402", "202404", "202412", "20240415", "20230228"},
        e \in ExpiryDates, o \in {0, 20, 31}}

OffsetDays == {None} \cup {IntObj(k) : k \in {0, 1, 15, 29, 30, 31, 45}}

AccessorLegs ==
    {PyStr("202403"), PyStr("202406"), PyStr("20240315"),
     SingleContractDate("202406", ExpiryDate(2024, 6, 21), 5)}

AccessorContractDates ==
    {ContractDate(i, e, o) :
        i \in {PyStr("202403"), PyStr("20240300"), PyStr("20240315")}
              \cup {PyList(l) : l \in SeqsUpTo(AccessorLegs, MaxAccessorLegs)},
        e \in ExpiryDates \cup {ExpiryDate(1999, 12, 1)}, o \in ExpiryOffsets}

AccessorContracts == {FuturesContract(PyStr("ES1"), c) : c \in AccessorContractDates}

InitAccessors ==
    /\ call_args \in
          [call : {"approximate_expiry_date"}, self : ApproxDates, offset_days : OffsetDays]
          \cup [call : {"single_contract_date", "front_contract", "back_contract",
                        "as_dict"},
                self : AccessorContractDates]
          \cup [call : {"letter_month"}, self : AccessorContracts]
          \cup [call : {"FuturesContract.approximate_expiry_date"},
                self : AccessorContracts, offset_days : {None, IntObj(31)}]
    /\ call_res = NotYet
    /\ IdleSingle /\ IdleContractDate /\ IdleOrder /\ IdleList /\ IdlePrices
    /\ IdleKey /\ IdleRoll /\ IdleSetOps

\* call_res = self.approximate_expiry_date(offset_days), self a SingleContractDate
ApproximateExpiryDate ==
    /\ call_args.call = "approximate_expiry_date"
    /\ call_res = NotYet
    /\ call_res' = approximate_expiry_date(call_args.self, call_args.offset_days)
    /\ UNCHANGED <<call_args, varsSingle, varsContractDate, varsOrder, varsList,
                   varsPrices, varsKey, varsRoll, varsSetOps>>

\* call_res = self.single_contract_date, self a ContractDate
SingleContractDateOf ==
    /\ call_args.call = "single_contract_date"
    /\ call_res = NotYet
    /\ call_res' = single_contract_date(call_args.self)
    /\ UNCHANGED <<call_args, varsSingle, varsContractDate, varsOrder, varsList,
                   varsPrices, varsKey, varsRoll, varsSetOps>>

\* call_res = self.letter_month(), self a FuturesContract
LetterMonth ==
    /\ call_args.call = "letter_month"
    /\ call_res = NotYet
    /\ call_res' = FuturesContract_letter_month(call_args.self)
    /\ UNCHANGED <<call_args, varsSingle, varsContractDate, varsOrder, varsList,
                   varsPrices, varsKey, varsRoll, varsSetOps>>

\* call_res = self.approximate_expiry_date(offset_days), self a FuturesContract
ContractApproximateExpiryDate ==
    /\ call_args.call = "FuturesContract.approximate_expiry_date"
    /\ call_res = NotYet
    /\ call_res' = FuturesContract_approximate_expiry_date(call_args.self,
                                                           call_args.offset_days)
    /\ UNCHANGED <<call_args, varsSingle, varsContractDate, varsOrder, varsList,
                   varsPrices, varsKey, varsRoll, varsSetOps>>

\* call_res = self.front_contract, self a ContractDate
FrontContract ==
    /\ call_args.call = "front_contract"
    /\ call_res = NotYet
    /\ call_res' = ContractDate_front_contract(call_args.self)
    /\ UNCHANGED <<call_args, varsSingle, varsContractDate, varsOrder, varsList,
                   varsPrices, varsKey, varsRoll, varsSetOps>>

\* call_res = self.back_contract, self a ContractDate
BackContract ==
    /\ call_args.call = "back_contract"
    /\ call_res = NotYet
    /\ call_res' = ContractDate_back_contract(call_args.self)
    /\ UNCHANGED <<call_args, varsSingle, varsContractDate, varsOrder, varsList,
                   varsPrices, varsKey, varsRoll, varsSetOps>>

\* call_res = (self.as_dict(), nothing restored yet), self a ContractDate
AsDict ==
    /\ call_args.call = "as_dict"
    /\ call_res = NotYet
    /\ call_res' = [data_dict |-> as_dict(call_args.self), restored |-> NotYet]
    /\ UNCHANGED <<call_args, varsSingle, varsContractDate, varsOrder, varsList,
                   varsPrices, varsKey, varsRoll, varsSetOps>>

\* restored = ContractDate.from_dict(data_dict), on the dict as_dict returned
FromDict ==
    /\ call_args.call = "as_dict"
    /\ call_res # NotYet
    /\ call_res.restored = NotYet
    /\ call_res' = [call_res EXCEPT !.restored = from_dict(call_res.data_dict)]
    /\ UNCHANGED <<call_args, varsSingle, varsContractDate, varsOrder, varsList,
                   varsPrices, varsKey, varsRoll, varsSetOps>>

NextAccessors ==
    \/ ApproximateExpiryDate
    \/ SingleContractDateOf
    \/ LetterMonth
    \/ ContractApproximateExpiryDate
    \/ FrontContract
    \/ BackContract
    \/ AsDict
    \/ FromDict

SpecAccessors == InitAccessors /\ [][NextAccessors]_vars

\* The last day of the months the approximate expiry is asked for.
LastDayOf(date_str) ==
    IF SubSeq(date_str, 1, 6) = "202302" THEN 28
    ELSE IF SubSeq(date_str, 1, 6) = "202402" THEN 29
    ELSE IF SubSeq(date_str, 1, 6) = "202404" THEN 30
    ELSE 31

\* C23: approximate_expiry_date(offset_days) of a SingleContractDate is a
\* date in the contract's own year and month whose day is the smaller of k
\* and the last day of that month, where k is offset_days if given, else the
\* stored approx_expiry_offset, and 15 when that value is 0; in a 30-day
\* month offset_days = 31 gives day 30.
C23_ApproximateExpiry ==
    Called("approximate_expiry_date") =>
        LET self == call_args.self
            value == IF call_args.offset_days = None THEN self.approx_expiry_offset
                     ELSE call_args.offset_days.val
            k == IF value = 0 THEN 15 ELSE value
            last == LastDayOf(self.date_str)
        IN  /\ "type" \in DOMAIN call_res
            /\ call_res.type = "ExpiryDate"
            /\ Decimal(call_res.year) = SubSeq(self.date_str, 1, 4)
            /\ ZeroPad(call_res.month, 2) = SubSeq(self.date_str, 5, 6)
            /\ call_res.day <= k /\ call_res.day <= last
            /\ call_res.day = k \/ call_res.day = last
            /\ (last = 30 /\ call_args.offset_days = IntObj(31)) => call_res.day = 30

\* April 2024 with offset_days = 31: the 30th.
C23_Witness ==
    /\ Called("approximate_expiry_date")
    /\ call_args.self.date_str = "20240400"
    /\ call_args.self.approx_expiry_offset = 20
    /\ call_args.offset_days = IntObj(31)
    /\ call_res = ExpiryDate(2024, 4, 30)

\* C24: single_contract_date raises whenever the number of stored dates is
\* not 1 and returns the stored date when it is 1; letter_month of a
\* FuturesContract raises on a spread; approximate_expiry_date of a
\* FuturesContract returns None on a spread.
C24_SingleOnly ==
    /\ Called("single_contract_date") =>
          IF Len(call_args.self.contract_dates) = 1
          THEN call_res = call_args.self.contract_dates[1]
          ELSE IsRaise(call_res)
    /\ Called("letter_month") =>
          (Len(call_args.self.contract_date.contract_dates) > 1 => IsRaise(call_res))
    /\ Called("FuturesContract.approximate_expiry_date") =>
          (Len(call_args.self.contract_date.contract_dates) > 1 => call_res = None)

\* single_contract_date has raised on a spread of two dates.
C24_Witness ==
    /\ Called("single_contract_date")
    /\ Len(call_args.self.contract_dates) = 2
    /\ call_res = Raise("ValueError")

\* The (year, month, day-or-0) of a stored date, read off its digits.
LegTuple(d) ==
    <<DecimalValue(SubSeq(d.date_str, 1, 4)),
      DecimalValue(SubSeq(d.date_str, 5, 6)),
      DecimalValue(SubSeq(d.date_str, 7, 8))>>

\* call_res is a stored date of call_args.self that no stored date is
\* before (front) or after (back).
IsFrontOrBack ==
    LET ds == call_args.self.contract_dates IN
    /\ ~ IsRaise(call_res)
    /\ \E i \in 1..Len(ds) : ds[i] = call_res
    /\ \A i \in 1..Len(ds) :
          IF call_args.call = "front_contract"
          THEN ~ TupleLess(LegTuple(ds[i]), LegTuple(call_res))
          ELSE ~ TupleLess(LegTuple(call_res), LegTuple(ds[i]))

\* C25 as stated: front_contract and back_contract are defined for every
\* ContractDate that can be constructed, are stored members of it, and lie
\* at or before, respectively at or after, every member under (year, month,
\* day-or-0).
C25_FrontBackDefined ==
    (Called("front_contract") \/ Called("back_contract")) => IsFrontOrBack

\* from_dict has been called on the dict that as_dict returned.
Restored == Called("as_dict") /\ call_res.restored # NotYet

\* C26: ContractDate.from_dict(cd.as_dict()) == cd, with the same number
\* and order of dates and the same ContractDate-level expiry date and
\* approx_expiry_offset: no expiry date stays None, an offset of 0 stays 0.
C26_DictRoundTrip ==
    Restored =>
        /\ ~ IsRaise(call_res.restored)
        /\ ContractDate_eq(call_res.restored, call_args.self)
        /\ Len(call_res.restored.contract_dates) = Len(call_args.self.contract_dates)
        /\ \A i \in 1..Len(call_args.self.contract_dates) :
              call_res.restored.contract_dates[i].date_str
                 = call_args.self.contract_dates[i].date_str
        /\ call_res.restored.expiry_date = call_args.self.expiry_date
        /\ call_res.restored.approx_expiry_offset = call_args.self.approx_expiry_offset

\* A spread of a daily and a monthly date with an expiry date and an offset
\* has come back from its dict, which holds the expiry date as a string.
C26_Witness ==
    /\ Restored
    /\ Len(call_args.self.contract_dates) = 2
    /\ call_args.self.contract_dates[1].date_str = "20240315"
    /\ call_args.self.contract_dates[2].date_str = "20240300"
    /\ call_args.self.expiry_date = ExpiryDate(2024, 3, 15)
    /\ call_args.self.approx_expiry_offset = 20
    /\ call_res.data_dict.expiry_date = StrObj("20240315")
    /\ call_res.data_dict.contract_dates = <<"20240315", "202403">>
    /\ call_res.restored = call_args.self

-----------------------------------------------------------------------------
(* Specification SpecExpiry: ExpiryDate.from_str on strings of 4 to 9      *)
(* characters, and as_str on the ExpiryDate it returns.                    *)

\* Strings of digits with months and days of one and of two digits, months
\* and days that do not exist, a blank, a hyphen, and too many digits.
ExpiryStrings ==
    {y \o m \o d : y \in {"1999", "2023", "2024"},
                   m \in {"02", "3", "03", "11", "12", "13", "00", "-3"},
                   d \in {"", "5", " 5", "05", "15", "29", "30", "31", "00", "32", "155"}}
    \cup {"", "2024"}

InitExpiry ==
    /\ call_args \in [call : {"from_str"}, date_as_str : ExpiryStrings]
    /\ call_res = NotYet
    /\ IdleSingle /\ IdleContractDate /\ IdleOrder /\ IdleList /\ IdlePrices
    /\ IdleKey /\ IdleRoll /\ IdleSetOps

\* call_res = (ExpiryDate.from_str(date_as_str), as_str not called yet)
FromStr ==
    /\ call_args.call = "from_str"
    /\ call_res = NotYet
    /\ call_res' = [expiry |-> ExpiryDate_from_str(call_args.date_as_str), as_str |-> NotYet]
    /\ UNCHANGED <<call_args, varsSingle, varsContractDate, varsOrder, varsList,
                   varsPrices, varsKey, varsRoll, varsSetOps>>

\* as_str = expiry.as_str(), on the ExpiryDate from_str returned
AsStr ==
    /\ call_args.call = "from_str"
    /\ call_res # NotYet
    /\ ~ IsRaise(call_res.expiry)
    /\ call_res.as_str = NotYet
    /\ call_res' = [call_res EXCEPT !.as_str = StrObj(ExpiryDate_as_str(call_res.expiry))]
    /\ UNCHANGED <<call_args, varsSingle, varsContractDate, varsOrder, varsList,
                   varsPrices, varsKey, varsRoll, varsSetOps>>

NextExpiry == FromStr \/ AsStr

SpecExpiry == InitExpiry /\ [][NextExpiry]_vars

\* s is eight digits that are the year, month and day of a calendar date.
ValidYYYYMMDD(s) ==
    /\ Len(s) = 8
    /\ IsDigits(s)
    /\ IsCalendarDate(DecimalValue(SubSeq(s, 1, 4)), DecimalValue(SubSeq(s, 5, 6)),
                      DecimalValue(SubSeq(s, 7, 8)))

\* C27 as stated: for every valid YYYYMMDD string s, from_str(s).as_str()
\* is s, and from_str raises on every string that is not 8 characters long
\* or is not a calendar date.
C27_FromStrStrict ==
    Called("from_str") =>
        IF ValidYYYYMMDD(call_args.date_as_str)
        THEN /\ ~ IsRaise(call_res.expiry)
             /\ call_res.as_str # NotYet => call_res.as_str = StrObj(call_args.date_as_str)
        ELSE IsRaise(call_res.expiry)

-----------------------------------------------------------------------------
(* Rolls of daily contract dates, in SpecRoll *)

\* C28: next_contract_month and previous_contract_month always return a
\* monthly contract date -- day None, original format of 6 characters --
\* also on a daily receiver; for a receiver d of a month 1..12,
\* d.next_contract_month().previous_contract_month() is the monthly date of
\* d's year and month, which equals d only if d's day digits are "00".
C28_RollReturnsMonthly ==
    /\ \A i \in 1..Len(roll_calls) :
          /\ IsSingleContractDate(roll_dates[i + 1])
          /\ is_monthly(roll_dates[i + 1])
          /\ day(roll_dates[i + 1]) = None
          /\ Len(original_format(roll_dates[i + 1])) = 6
    /\ \A i \in 1..(Len(roll_calls) - 1) :
          (/\ IsInt(month(roll_dates[i]))
           /\ month(roll_dates[i]).val \in 1..12
           /\ IsCall(i, "next_contract_month", FALSE)
           /\ IsCall(i + 1, "previous_contract_month", FALSE)) =>
              /\ roll_dates[i + 2].date_str = SubSeq(roll_dates[i].date_str, 1, 6) \o "00"
              /\ SingleContractDate_eq(roll_dates[i + 2], roll_dates[i])
                    <=> SubSeq(roll_dates[i].date_str, 7, 8) = "00"

\* 15 December 2024 has been rolled to January 2025 and back: to December
\* 2024, a monthly date that is not the daily date the chain began with.
C28_Witness ==
    /\ Len(roll_calls) = 2
    /\ IsCall(1, "next_contract_month", FALSE)
    /\ IsCall(2, "previous_contract_month", FALSE)
    /\ roll_dates[1].date_str = "20241215"
    /\ roll_dates[2].date_str = "20250100"
    /\ roll_dates[3].date_str = "20241200"
    /\ ~ SingleContractDate_eq(roll_dates[3], roll_dates[1])

-----------------------------------------------------------------------------
(* Intersection and the frame of the set-style calls, in SpecSetOps *)

\* The elements of a sequence at the given positions, in order.
SubseqAt(items, positions) ==
    [k \in 1..Cardinality(positions) |-> items[KthOf(positions, k)]]

\* C29: L.intersection(M) and L.difference(M) are complementary
\* subsequences of L: the positions of L split into two sets, the
\* intersection is L at the one in L's order and the difference is L at the
\* other in L's order, so every element of L, duplicates included, is in
\* exactly one of them and intersection keeps contracts of a repeated key.
C29_Complementary ==
    (Returned("intersection") \/ Returned("difference")) =>
        LET L == set_args.self
            M == set_args.other_list
            I == IF Returned("intersection") THEN set_res.result ELSE intersection(L, M)
            D == IF Returned("difference") THEN set_res.result ELSE difference(L, M)
        IN  /\ ~ IsRaise(I) /\ ~ IsRaise(D)
            /\ \E kept \in SUBSET (1..Len(L.items)) :
                  /\ I.items = SubseqAt(L.items, kept)
                  /\ D.items = SubseqAt(L.items, (1..Len(L.items)) \ kept)
                  /\ \A i \in kept : FuturesContract_key(L.items[i]) \in key_set(M.items)
                  /\ \A i \in (1..Len(L.items)) \ kept :
                        FuturesContract_key(L.items[i]) \notin key_set(M.items)

\* The intersection has kept both contracts of the key "ES1/202403" and the
\* difference is the one contract between them.
C29_Witness ==
    /\ Returned("intersection")
    /\ Len(set_args.self.items) = 3
    /\ KeySeq(set_args.self.items) = <<"ES1/202403", "CL1/202403", "ES1/202403">>
    /\ set_args.self.items[1] # set_args.self.items[3]
    /\ KeySeq(set_args.other_list.items) = <<"ES1/202403">>
    /\ set_res.result.items = <<set_args.self.items[1], set_args.self.items[3]>>
    /\ KeySeq(difference(set_args.self, set_args.other_list).items) = <<"CL1/202403">>

-----------------------------------------------------------------------------
(* Specification SpecSetCalls: the same calls, any number of them in any   *)
(* order, on one self and one other_list.                                  *)

\* The longest self and other_list of a sequence of calls.
MaxCallLen == 2

InitSetCalls ==
    /\ \E self \in SetLists(MaxCallLen) :
          \E other_list \in SetLists(MaxCallLen) :
             set_args = [self |-> self, other_list |-> other_list]
    /\ set_res = NotYet
    /\ IdleSingle /\ IdleContractDate /\ IdleOrder /\ IdleList /\ IdlePrices
    /\ IdleKey /\ IdleRoll /\ IdleCall

NextSetCalls ==
    \/ Unique
    \/ Union
    \/ Difference
    \/ GroupByInstrument
    \/ Intersection
    \/ \E reverse \in BOOLEAN : SortByDate(reverse)
    \/ \E reverse \in BOOLEAN : SortByInstrument(reverse)

SpecSetCalls == InitSetCalls /\ [][NextSetCalls]_vars

\* The value is a ListOfFutureContracts or a dict of them.
IsCollection(v) ==
    /\ "type" \in DOMAIN v
    /\ v.type \in {"ListOfFutureContracts", "dict"}

\* C30: every call of union, intersection, difference, unique, sort_by_date,
\* sort_by_instrument and group_by_instrument, after any calls before it,
\* returns a collection of its own and leaves the receiver and the argument
\* list with the same elements in the same order.
C30_CallsLeaveListsUnchanged ==
    [][set_args' = set_args /\ IsCollection(set_res'.result)]_vars

\* sort_by_date has returned the contracts in another order than the
\* receiver holds them in.
C30_Witness ==
    /\ Returned("sort_by_date")
    /\ ~ set_res.reverse
    /\ KeySeq(set_args.self.items) = <<"ES1/202406", "CL1/202403">>
    /\ KeySeq(set_res.result.items) = <<"CL1/202403", "ES1/202406">>
    /\ Len(set_args.other_list.items) = 2

====
